---- MODULE Spec2Model ----
(***************************************************************************)
(* A model of the MongoDB storage engine for MariaDB                       *)
(* (toddstoffel/mongodb-engine): the connection pool, the schema registry, *)
(* the type inference, the URI parser, the condition translator, the scan  *)
(* hooks of the table handler and the document-to-row converter.           *)
(*                                                                         *)
(* Each subsystem has its own specification over the module's variables;   *)
(* the variables of the other subsystems stay at their initial values.     *)
(*   Spec         the connection pool (acquire / release / idle reaping)   *)
(*   SpecSchema   the schema registry (inference, cache, TTL)              *)
(*   SpecAnalyze  the type inference over the sampled documents            *)
(*   SpecScan     the condition pushdown and the scan hooks of a handler   *)
(*   SpecUri      the URI parser and its rendering                         *)
(*   SpecConvert  the conversion of documents to rows                      *)
(***************************************************************************)
EXTENDS Integers, Sequences, FiniteSets, TLC

(***************************************************************************)
(* Bounds of the model.                                                    *)
(***************************************************************************)
NumThreads == 2          \* sessions calling into one pool
MaxPool == 2             \* largest configured max_connections
MaxTicks == 2            \* number of times the clock advances
ClockStep == 300500      \* milliseconds between two clock readings
MaxSchemaTicks == 2      \* clock advances of the schema registry specification
SchemaClockStep == 150000 \* milliseconds between two of its clock readings
MaxSamples == 3          \* documents in one sample of the type inference
MaxScanPosition == 4     \* scan_position at which the handler stops reading
MaxRows == 2             \* documents converted into the record buffer of a handler
MaxClientsCreated == 3   \* clients one pool creates in its life
MaxPoolsCreated == 4     \* MongoConnectionPool objects constructed in the process
NumHandlers == 3         \* table handlers of one target

(***************************************************************************)
(* Constants of the program.                                               *)
(***************************************************************************)
NULL == 0
MONGODB_DEFAULT_MAX_CONNECTIONS == 10
MONGODB_DEFAULT_IDLE_TIMEOUT_SECONDS == 300
MONGODB_DEFAULT_SCHEMA_CACHE_TTL_SECONDS == 300
MillisPerSecond == 1000  \* duration_cast<std::chrono::seconds>

Threads == 1..NumThreads
\* The addresses mongoc_client_new can return: one more than a pool can hold,
\* so that a new client can get a fresh address or that of a destroyed one.
Clients == 1..(MaxPool + 1)

VARIABLES
  \* ---- MongoConnectionPool (src/include/mongodb_connection.h) ----
  connections,               \* std::vector<unique_ptr<MongoConnectionInfo>>
  max_connections,
  idle_timeout,              \* std::chrono::seconds
  next_connection_id,
  active_connections,
  total_connections_created,
  \* ---- the callers of the pool ----
  holding,                   \* holding[t]: the handle thread t got from acquire and has not released
  stale,                     \* stale[t]: the handle thread t released and has not replaced by a new acquire
  disciplined,               \* FALSE once some caller released a handle it did not hold
  last_call,                 \* the pool call made by the last step
  \* ---- std::chrono::steady_clock, in milliseconds ----
  now,
  \* ---- MongoSchemaRegistry (src/include/mongodb_schema.h) ----
  schema_cache,              \* std::map<std::string, MongoSchemaCache>
  cache_ttl,                 \* std::chrono::seconds
  schema_client,
  \* ---- the calls of infer_schema_from_collection in flight ----
  infer_pc,                  \* infer_pc[t]: "idle", "sample" (cache missed), "store" (entry built)
  infer_key,                 \* infer_key[t]: table_key of the call
  infer_entry,               \* infer_entry[t]: cache_entry of the call
  served,                    \* served[k]: mappings and time of the last inference stored for k
  invalidated,               \* the keys invalidate_cache marked with no sampling made since
  registry_call,             \* the registry call that returned in the last step, and its result
  \* ---- the loop over the samples in infer_schema_from_collection ----
  samples,                   \* std::vector<bson_t*>
  inferred_fields,           \* std::map<std::string, MongoFieldMapping>
  doc_index,                 \* the next sample to analyze
  \* ---- ha_mongodb (src/include/ha_mongodb.h) ----
  pushed_condition,          \* bson_t*
  cursor,                    \* mongoc_cursor_t*
  current_doc,               \* const bson_t*: index in the collection, 0 for null
  scan_position,
  collection,                \* whether the handler has its mongoc_collection_t
  accepted,                  \* the condition cond_push took over and cond_pop has not dropped
  ref,                       \* the position that position() stored
  ref_doc,                   \* the document rnd_next had returned when position() stored it, 0 for none
  overwritten,               \* TRUE once a cursor was assigned over a cursor not destroyed
  handler_call,              \* the handler call made by the last step, and its result
  \* ---- MongoURIParser (src/include/mongodb_uri_parser.h) ----
  connection_string,         \* the string given to parse
  uri_stage,                 \* "given", "parsed", "rendered", "reparsed", "logged"
  parsed_uri,                \* MongoURI: the result of parse
  rendered,                  \* its to_connection_string()
  reparsed_uri,              \* MongoURI: the result of parsing rendered
  safe_string,               \* to_safe_string() of parsed_uri
  \* ---- the row of a handler (src/src/ha_mongodb_handler.cc) ----
  table_fields,              \* table->field: the names of the Fields
  row,                       \* the Fields of the record buffer
  convert_call,              \* the conversion made by the last step, and its result
  rows_converted,            \* the number of conversions made
  \* ---- the pools of the process (src/src/mongodb_connection.cc) ----
  global_connection_pools,   \* std::map<std::string, std::shared_ptr<MongoConnectionPool>>
  pools_created,             \* the number of MongoConnectionPool objects constructed
  pools_call,                \* the call made by the last step, and its result
  \* ---- the table handlers of one target (src/src/ha_mongodb_handler.cc) ----
  handler_open,              \* handler_open[h]: whether ha_mongodb::open has returned 0
  handler_client,            \* handler_client[h]: mongoc_client_t*, NULL for nullptr
  handler_collection,        \* handler_collection[h]: whether collection is not nullptr
  from_pool,                 \* from_pool[h]: whether acquire_connection gave the client
  live_clients,              \* the clients created and not destroyed
  handlers_call,             \* the call made by the last step, and its result
  \* ---- the life of one pool: cleanup, set_max_connections, destructor ----
  closed,                    \* closed[id]: the mongoc_client_destroy calls on the client of entry id
  pool_alive,                \* FALSE once ~MongoConnectionPool has run
  pool_uri_valid,            \* parsed_uri.is_valid of the pool
  lifecycle_call,            \* the call made by the last step
  \* ---- the threads of one pool and its pool_mutex ----
  pool_mutex,                \* the thread that holds pool_mutex, NULL when it is free
  lock_pc,                   \* lock_pc[t]: "idle", or the position of thread t in cleanup()
  pool_access,               \* the last access to the pool's fields: who, in which function, holding the lock or not
  observed,                  \* what the last is_healthy / get_total_connections read
  \* ---- the global maps and the network operations made under their locks ----
  connected_pools,           \* the instances of the pools that hold a live client
  global_schema_registries,  \* std::map<std::string, std::shared_ptr<MongoSchemaRegistry>>
  network_log,               \* the last call: the global lock it held and the network operations made under it
  \* ---- ha_mongodb::open and the MONGODB_SHARE of the handler ----
  table_connect_string,      \* table->s->connect_string
  share,                     \* MONGODB_SHARE*: NULL for nullptr
  open_call                  \* the call made by the last step, and its result

poolVars == <<connections, max_connections, idle_timeout, next_connection_id,
              active_connections, total_connections_created>>
callerVars == <<holding, stale, disciplined, last_call>>
registryVars == <<schema_cache, cache_ttl, schema_client, infer_pc, infer_key,
                  infer_entry, served, invalidated, registry_call>>
analyzeVars == <<samples, inferred_fields, doc_index>>
scanVars == <<pushed_condition, cursor, current_doc, scan_position, collection,
              accepted, ref, ref_doc, overwritten, handler_call>>
uriVars == <<connection_string, uri_stage, parsed_uri, rendered, reparsed_uri,
             safe_string>>
convertVars == <<table_fields, row, convert_call, rows_converted>>
poolsVars == <<global_connection_pools, pools_created, pools_call>>
handlersVars == <<handler_open, handler_client, handler_collection, from_pool, live_clients, handlers_call>>
lifecycleVars == <<closed, pool_alive, pool_uri_valid, lifecycle_call>>
lockingVars == <<pool_mutex, lock_pc, pool_access, observed>>
globalsVars == <<connected_pools, global_schema_registries, network_log>>
openVars == <<table_connect_string, share, open_call>>
vars == <<poolVars, callerVars, now, registryVars, analyzeVars, scanVars, uriVars,
          convertVars,
          poolsVars,
          handlersVars,
          lifecycleVars,
          lockingVars,
          globalsVars,
          openVars>>

\* What a specification of one subsystem leaves alone.
notOpenVars == <<poolVars, callerVars, now, registryVars, analyzeVars,
                 scanVars, uriVars, convertVars, poolsVars, handlersVars, lifecycleVars, lockingVars, globalsVars>>
notGlobalsVars == <<poolVars, callerVars, now, registryVars, analyzeVars,
                    scanVars, uriVars, convertVars, poolsVars, handlersVars, lifecycleVars, lockingVars,
                    openVars>>
notLockingVars == <<poolVars, callerVars, now, registryVars, analyzeVars,
                    scanVars, uriVars, convertVars, poolsVars, handlersVars, lifecycleVars,
                    globalsVars,
                    openVars>>
notLifecycleVars == <<poolVars, callerVars, now, registryVars, analyzeVars,
                      scanVars, uriVars, convertVars, poolsVars, handlersVars,
                      lockingVars,
                      globalsVars,
                      openVars>>
notHandlersVars == <<poolVars, callerVars, now, registryVars, analyzeVars,
                     scanVars, uriVars, convertVars, poolsVars,
                     lifecycleVars,
                     lockingVars,
                     globalsVars,
                     openVars>>
notPoolsVars == <<poolVars, callerVars, now, registryVars, analyzeVars,
                  scanVars, uriVars, convertVars,
                  handlersVars,
                  lifecycleVars,
                  lockingVars,
                  globalsVars,
                  openVars>>
notPoolVars == <<registryVars, analyzeVars, scanVars, uriVars, convertVars,
                 poolsVars,
                 handlersVars,
                 lifecycleVars,
                 lockingVars,
                 globalsVars,
                 openVars>>
notLifecycleNorPoolVars == <<registryVars, analyzeVars, scanVars, uriVars, convertVars,
                             poolsVars, handlersVars,
                             lockingVars,
                             globalsVars,
                             openVars>>
notLockingNorPoolVars == <<registryVars, analyzeVars, scanVars, uriVars, convertVars,
                           poolsVars, handlersVars, lifecycleVars,
                           globalsVars,
                           openVars>>
notGlobalsNorPoolsVars == <<poolVars, callerVars, now, registryVars, analyzeVars, scanVars,
                            uriVars, convertVars, handlersVars, lifecycleVars, lockingVars,
                            openVars>>
notRegistryVars == <<poolVars, callerVars, analyzeVars, scanVars, uriVars, convertVars,
                     poolsVars,
                     handlersVars,
                     lifecycleVars,
                     lockingVars,
                     globalsVars,
                     openVars>>
notAnalyzeVars == <<poolVars, callerVars, now, registryVars, scanVars, uriVars, convertVars,
                    poolsVars,
                    handlersVars,
                    lifecycleVars,
                    lockingVars,
                    globalsVars,
                    openVars>>
notScanVars == <<poolVars, callerVars, now, registryVars, analyzeVars, uriVars, convertVars,
                 poolsVars,
                 handlersVars,
                 lifecycleVars,
                 lockingVars,
                 globalsVars,
                 openVars>>
notConvertVars == <<poolVars, callerVars, now, registryVars, analyzeVars, scanVars,
                    uriVars,
                    poolsVars,
                    handlersVars,
                    lifecycleVars,
                    lockingVars,
                    globalsVars,
                    openVars>>
notUriVars == <<poolVars, callerVars, now, registryVars, analyzeVars, scanVars, convertVars,
                poolsVars,
                handlersVars,
                lifecycleVars,
                lockingVars,
                globalsVars,
                openVars>>

(***************************************************************************)
(* Helpers                                                                 *)
(***************************************************************************)
\* The clients of the entries of the pool.
ClientsOf(conns) == {conns[i].client : i \in 1..Len(conns)}

\* Number of entries whose in_use flag is set.
BusyCount(conns) == Cardinality({i \in 1..Len(conns) : conns[i].in_use})

\* Whether client is the handle of an entry that is in use.
IsBusyEntry(conns, client) ==
  \E i \in 1..Len(conns) : conns[i].client = client /\ conns[i].in_use

\* MongoConnectionInfo(c, uri, id): last_used = now(), in_use = false.
MongoConnectionInfo(c, id, t) ==
  [client |-> c, last_used |-> t, in_use |-> FALSE, connection_id |-> id]

(***************************************************************************)
(* MongoConnectionPool::cleanup_idle_connections: an entry is removed (and *)
(* its client destroyed) when it is not in use and its idle time, cast to  *)
(* whole seconds, is greater than idle_timeout.                            *)
(***************************************************************************)
IdleSeconds(e, t) == (t - e.last_used) \div MillisPerSecond

IsReaped(e, t, timeout) == ~e.in_use /\ IdleSeconds(e, t) > timeout

cleanup_idle_connections(conns, t, timeout) ==
  SelectSeq(conns, LAMBDA e : ~IsReaped(e, t, timeout))

(***************************************************************************)
(* MongoConnectionPool::find_available_connection: the index of the first  *)
(* entry that is not in use, 0 when there is none.                         *)
(***************************************************************************)
find_available_connection_any(conns) ==
  IF Len(conns) > 0 THEN 1 ELSE 0

find_available_connection(conns) ==
  IF \E i \in 1..Len(conns) : ~conns[i].in_use
  THEN CHOOSE i \in 1..Len(conns) :
         /\ ~conns[i].in_use
         /\ \A j \in 1..(i - 1) : conns[j].in_use
  ELSE 0

(***************************************************************************)
(* The test "connections.size() < max_connections" of acquire_connection.  *)
(***************************************************************************)
UnderLimitOffByOne(conns, max) == Len(conns) <= max

UnderLimit(conns, max) == Len(conns) < max

(***************************************************************************)
(* MongoConnectionPool::acquire_connection, under pool_mutex. new_client   *)
(* is what create_new_connection returns if it is called: NULL (the URI is *)
(* invalid, the driver rejects it, or the ping fails) or a fresh client.   *)
(* The result is the pool's new state and the handle returned.             *)
(***************************************************************************)
\* acquire_connection creating a client while the pool is under its limit,
\* before it looks for an entry that is not in use.
acquire_connection_create_first(conns, max, active, next_id, total, t, timeout, new_client) ==
  LET kept == cleanup_idle_connections(conns, t, timeout)
      i    == find_available_connection(kept)
  IN  IF UnderLimit(kept, max) /\ new_client # NULL
      THEN [conns  |-> Append(kept, [MongoConnectionInfo(new_client, next_id, t)
                                       EXCEPT !.in_use = TRUE]),
            active |-> active + 1, next_id |-> next_id + 1, total |-> total + 1,
            result |-> new_client]
      ELSE IF i # 0
      THEN [conns  |-> [kept EXCEPT ![i].in_use = TRUE, ![i].last_used = t],
            active |-> active + 1, next_id |-> next_id, total |-> total,
            result |-> kept[i].client]
      ELSE [conns  |-> kept, active |-> active, next_id |-> next_id,
            total |-> total, result |-> NULL]

acquire_connection(conns, max, active, next_id, total, t, timeout, new_client) ==
  LET kept == cleanup_idle_connections(conns, t, timeout)
      i    == find_available_connection(kept)
  IN  IF i # 0
      THEN [conns  |-> [kept EXCEPT ![i].in_use = TRUE, ![i].last_used = t],
            active |-> active + 1, next_id |-> next_id, total |-> total,
            result |-> kept[i].client]
      ELSE IF UnderLimit(kept, max) /\ new_client # NULL
      THEN [conns  |-> Append(kept, [MongoConnectionInfo(new_client, next_id, t)
                                       EXCEPT !.in_use = TRUE]),
            active |-> active + 1, next_id |-> next_id + 1, total |-> total + 1,
            result |-> new_client]
      ELSE [conns  |-> kept, active |-> active, next_id |-> next_id,
            total |-> total, result |-> NULL]

(***************************************************************************)
(* MongoConnectionPool::release_connection: the first entry with this      *)
(* client that is in use becomes idle, its timestamp is refreshed and the  *)
(* active count is decremented; a null client returns before the lock.     *)
(***************************************************************************)
ReleaseMatchesAnyState(e, client) == e.client = client

ReleaseMatches(e, client) == e.client = client /\ e.in_use

release_connection(conns, active, t, client) ==
  IF client = NULL
  THEN [conns |-> conns, active |-> active]
  ELSE IF \E i \in 1..Len(conns) : ReleaseMatches(conns[i], client)
  THEN LET i == CHOOSE k \in 1..Len(conns) :
                  /\ ReleaseMatches(conns[k], client)
                  /\ \A j \in 1..(k - 1) : ~ReleaseMatches(conns[j], client)
       IN  [conns  |-> [conns EXCEPT ![i].in_use = FALSE, ![i].last_used = t],
            active |-> active - 1]
  ELSE [conns |-> conns, active |-> active]

(***************************************************************************)
(* Strings are sequences of one-character strings, so that the code's      *)
(* character tests and scans can be modelled as they are.                  *)
(***************************************************************************)
Digits == {"0", "1", "2", "3", "4", "5", "6", "7", "8", "9"}

LowerLetters == {"a", "b", "c", "d", "e", "f", "g", "h", "i", "j", "k", "l", "m",
                 "n", "o", "p", "q", "r", "s", "t", "u", "v", "w", "x", "y", "z"}

UpperLetters == {"A", "B", "C", "D", "E", "F", "G", "H", "I", "J", "K", "L", "M",
                 "N", "O", "P", "Q", "R", "S", "T", "U", "V", "W", "X", "Y", "Z"}

isdigit(c) == c \in Digits

isalpha(c) == c \in LowerLetters \cup UpperLetters

isalnum(c) == isalpha(c) \/ isdigit(c)

\* The printable characters in the order of their codes (32 to 126), which is
\* the order of std::string keys in a std::map; "<96>" stands for the grave
\* accent.
AsciiOrder ==
  <<" ", "!", "\"", "#", "$", "%", "&", "'", "(", ")", "*", "+",
    ",", "-", ".", "/", "0", "1", "2", "3", "4", "5", "6", "7",
    "8", "9", ":", ";", "<", "=", ">", "?", "@", "A", "B", "C",
    "D", "E", "F", "G", "H", "I", "J", "K", "L", "M", "N", "O",
    "P", "Q", "R", "S", "T", "U", "V", "W", "X", "Y", "Z", "[",
    "\\", "]", "^", "_", "<96>", "a", "b", "c", "d", "e", "f", "g",
    "h", "i", "j", "k", "l", "m", "n", "o", "p", "q", "r", "s",
    "t", "u", "v", "w", "x", "y", "z", "{", "|", "}", "~">>

CharRank(c) == CHOOSE i \in 1..Len(AsciiOrder) : AsciiOrder[i] = c

RECURSIVE StringLess(_, _)
StringLess(a, b) ==
  IF b = <<>> THEN FALSE
  ELSE IF a = <<>> THEN TRUE
  ELSE IF a[1] = b[1] THEN StringLess(Tail(a), Tail(b))
  ELSE CharRank(a[1]) < CharRank(b[1])

(***************************************************************************)
(* normalize_field_name: every character that is neither alphanumeric nor  *)
(* an underscore becomes an underscore; a name starting with a digit gets  *)
(* an underscore in front.                                                 *)
(***************************************************************************)
normalize_field_name(name) ==
  LET normalized == [i \in 1..Len(name) |->
                       IF ~isalnum(name[i]) /\ name[i] # "_" THEN "_" ELSE name[i]]
  IN  IF Len(normalized) > 0 /\ isdigit(normalized[1])
      THEN <<"_">> \o normalized
      ELSE normalized

\* is_valid_sql_identifier without the test of the length.
is_valid_sql_identifier_any_length(name) ==
  /\ ~(Len(name) = 0)
  /\ ~(~isalpha(name[1]) /\ name[1] # "_")
  /\ \A i \in 2..Len(name) : ~(~isalnum(name[i]) /\ name[i] # "_")

(***************************************************************************)
(* is_valid_sql_identifier: 1 to 64 characters, the first a letter or an    *)
(* underscore, the others alphanumeric or underscores.                     *)
(***************************************************************************)
is_valid_sql_identifier(name) ==
  /\ ~(Len(name) = 0 \/ Len(name) > 64)
  /\ ~(~isalpha(name[1]) /\ name[1] # "_")
  /\ \A i \in 2..Len(name) : ~(~isalnum(name[i]) /\ name[i] # "_")

(***************************************************************************)
(* MongoSchemaRegistry::infer_field_type: the SQL type of a BSON value.    *)
(***************************************************************************)
infer_field_type(value_type) ==
  CASE value_type = "BSON_TYPE_DOUBLE"     -> "MYSQL_TYPE_DOUBLE"
    [] value_type = "BSON_TYPE_UTF8"       -> "MYSQL_TYPE_STRING"
    [] value_type = "BSON_TYPE_DOCUMENT"   -> "MYSQL_TYPE_MEDIUM_BLOB"
    [] value_type = "BSON_TYPE_ARRAY"      -> "MYSQL_TYPE_MEDIUM_BLOB"
    [] value_type = "BSON_TYPE_BINARY"     -> "MYSQL_TYPE_BLOB"
    [] value_type = "BSON_TYPE_BOOL"       -> "MYSQL_TYPE_TINY"
    [] value_type = "BSON_TYPE_DATE_TIME"  -> "MYSQL_TYPE_DATETIME"
    [] value_type = "BSON_TYPE_NULL"       -> "MYSQL_TYPE_STRING"
    [] value_type = "BSON_TYPE_INT32"      -> "MYSQL_TYPE_LONG"
    [] value_type = "BSON_TYPE_TIMESTAMP"  -> "MYSQL_TYPE_TIMESTAMP"
    [] value_type = "BSON_TYPE_INT64"      -> "MYSQL_TYPE_LONGLONG"
    [] value_type = "BSON_TYPE_DECIMAL128" -> "MYSQL_TYPE_NEWDECIMAL"
    [] value_type = "BSON_TYPE_OID"        -> "MYSQL_TYPE_STRING"
    [] OTHER                               -> "MYSQL_TYPE_STRING"

\* The max_length a new mapping gets for its type.
MaxLengthOfType(sql_type) ==
  CASE sql_type \in {"MYSQL_TYPE_STRING", "MYSQL_TYPE_VAR_STRING"} -> 255
    [] sql_type \in {"MYSQL_TYPE_BLOB", "MYSQL_TYPE_LONG_BLOB"}    -> 65535
    [] sql_type = "MYSQL_TYPE_MEDIUM_BLOB"                         -> 1048576
    [] OTHER                                                       -> 0

\* The mapping analyze_document_structure creates for a field it sees first.
NewFieldMapping(field_name, key, value_type) ==
  [sql_name    |-> field_name,
   mongo_path  |-> key,
   sql_type    |-> infer_field_type(value_type),
   is_nullable |-> TRUE,
   max_length  |-> MaxLengthOfType(infer_field_type(value_type))]

\* The refinement of the mapping of a field seen before: an INT mapping
\* becomes DOUBLE on a double, any mapping becomes VARCHAR(255) on a string
\* type, and every other mapping stays.
RefineFieldMapping(mapping, value_type) ==
  LET current_type  == mapping.sql_type
      inferred_type == infer_field_type(value_type)
  IN  IF current_type # inferred_type
      THEN IF current_type = "MYSQL_TYPE_LONG" /\ inferred_type = "MYSQL_TYPE_DOUBLE"
           THEN [mapping EXCEPT !.sql_type = "MYSQL_TYPE_DOUBLE"]
           ELSE IF current_type # "MYSQL_TYPE_STRING" /\ inferred_type = "MYSQL_TYPE_STRING"
           THEN [mapping EXCEPT !.sql_type = "MYSQL_TYPE_STRING", !.max_length = 255]
           ELSE mapping
      ELSE mapping

\* One iteration of the loop of analyze_document_structure, for the element
\* (key, value_type) of a document.
AnalyzeElement(fields, element) ==
  LET field_name == normalize_field_name(element.key)
  IN  IF ~is_valid_sql_identifier(field_name)
      THEN fields
      ELSE IF field_name \notin DOMAIN fields
      THEN [n \in DOMAIN fields \cup {field_name} |->
              IF n = field_name
              THEN NewFieldMapping(field_name, element.key, element.value_type)
              ELSE fields[n]]
      ELSE [fields EXCEPT ![field_name] = RefineFieldMapping(@, element.value_type)]

(***************************************************************************)
(* MongoSchemaRegistry::analyze_document_structure: a document is the      *)
(* sequence of its elements, in the order bson_iter_next yields them.      *)
(***************************************************************************)
RECURSIVE analyze_document_structure(_, _)
analyze_document_structure(doc, fields) ==
  IF doc = <<>> THEN fields
  ELSE analyze_document_structure(Tail(doc), AnalyzeElement(fields, Head(doc)))

\* The loop "for (doc : samples) analyze_document_structure(doc, inferred_fields)".
RECURSIVE AnalyzeSamples(_, _)
AnalyzeSamples(docs, fields) ==
  IF docs = <<>> THEN fields
  ELSE AnalyzeSamples(Tail(docs), analyze_document_structure(Head(docs), fields))

\* The std::map with no element.
EmptyMap == [n \in {} |-> NULL]

\* "for (field_pair : inferred_fields) field_mappings.push_back(...)": the
\* mappings in the order of their names.
RECURSIVE FieldMappingsOf(_)
FieldMappingsOf(fields) ==
  IF DOMAIN fields = {} THEN <<>>
  ELSE LET first == CHOOSE n \in DOMAIN fields :
                      \A o \in DOMAIN fields \ {n} : StringLess(n, o)
       IN  <<fields[first]>> \o
           FieldMappingsOf([n \in DOMAIN fields \ {first} |-> fields[n]])

(***************************************************************************)
(* The schema cache.                                                       *)
(***************************************************************************)
\* MongoSchemaCache(): the default-constructed entry.
MongoSchemaCache ==
  [field_mappings |-> <<>>, last_updated |-> 0, expires_at |-> 0,
   is_valid |-> FALSE, estimated_documents |-> 0]

\* "database_name + "." + collection_name".
table_key(database_name, collection_name) ==
  database_name \o "." \o collection_name

\* sample_collection_documents ignoring the error of the cursor.
sample_collection_documents_ignoring_error(outcome) == outcome.samples # <<>>

\* The return value of MongoSchemaRegistry::sample_collection_documents, for
\* what the cursor gave: "!has_error && !samples.empty()".
sample_collection_documents(outcome) == ~outcome.has_error /\ outcome.samples # <<>>

\* The cache_entry infer_schema_from_collection builds from the samples at time t.
CacheEntry(docs, t, ttl) ==
  [field_mappings      |-> FieldMappingsOf(AnalyzeSamples(docs, EmptyMap)),
   last_updated        |-> t,
   expires_at          |-> t + ttl * MillisPerSecond,
   is_valid            |-> TRUE,
   estimated_documents |-> Len(docs)]

\* is_cache_valid comparing the clock with last_updated.
is_cache_valid_never_fresh(cache, t) == cache.is_valid /\ t < cache.last_updated

\* MongoSchemaRegistry::is_cache_valid at time t.
is_cache_valid_inclusive(cache, t) == cache.is_valid /\ t <= cache.expires_at

is_cache_valid(cache, t) == cache.is_valid /\ t < cache.expires_at

\* MongoSchemaRegistry::get_field_mappings at time t: the return value and the
\* caller's vector, which is assigned only on success.
get_field_mappings(cache, table_name, mappings, t) ==
  IF table_name \in DOMAIN cache /\ is_cache_valid(cache[table_name], t)
  THEN [found |-> TRUE, mappings |-> cache[table_name].field_mappings]
  ELSE [found |-> FALSE, mappings |-> mappings]

\* MongoSchemaRegistry::invalidate_cache.
invalidate_cache(cache, table_name) ==
  IF table_name \in DOMAIN cache
  THEN [cache EXCEPT ![table_name].is_valid = FALSE]
  ELSE cache

\* A store that leaves the entry half written: valid, its mappings not yet
\* assigned.
StoreEntryHalfWritten(cache, key, entry) ==
  [k \in DOMAIN cache \cup {key} |->
     IF k = key THEN [entry EXCEPT !.field_mappings = <<>>] ELSE cache[k]]

\* "schema_cache[table_key] = std::move(cache_entry)".
StoreEntry(cache, key, entry) ==
  [k \in DOMAIN cache \cup {key} |-> IF k = key THEN entry ELSE cache[k]]

(***************************************************************************)
(* The condition translator (src/src/mongodb_translator.cc). A condition   *)
(* is an Item tree: a comparison of a field with a value, or a conjunction *)
(* or disjunction of conditions; NoCondition is the null Item pointer. A   *)
(* bson_t pointer is null or points to the sequence of (key, value)        *)
(* elements of a document.                                                 *)
(***************************************************************************)
NoCondition == [kind |-> "null", field |-> "", value |-> "", args |-> <<>>]

Comparison(kind, field, value) ==
  [kind |-> kind, field |-> field, value |-> value, args |-> <<>>]

Condition(kind, args) == [kind |-> kind, field |-> "", value |-> "", args |-> args]

NullBson == [null |-> TRUE, elements |-> <<>>]

Bson(elements) == [null |-> FALSE, elements |-> elements]

BsonElement(key, value) == [key |-> key, value |-> value]

\* translate_condition_to_bson: false for a null argument; otherwise it
\* appends the element city: "Paris" to match_filter and returns true.
translate_condition_to_bson(cond, match_filter) ==
  IF cond = NoCondition \/ match_filter.null
  THEN [result |-> FALSE, match_filter |-> match_filter]
  ELSE [result |-> TRUE,
        match_filter |-> Bson(Append(match_filter.elements,
                                     BsonElement("city", "Paris")))]

\* The translators of the clauses: each returns false.
translate_function_item(func) == FALSE

translate_condition_item(cond) == FALSE

translate_equality(func) == FALSE

translate_comparison(func, mongodb_op) == FALSE

translate_in_condition(func) == FALSE

translate_and_condition(cond) == FALSE

translate_or_condition(cond) == FALSE

\* Whether the translator implements the clause c, by the translator of its kind.
ClauseImplemented(c) ==
  CASE c.kind = "eq"  -> translate_equality(c)
    [] c.kind = "gt"  -> translate_comparison(c, "$gt")
    [] c.kind = "lt"  -> translate_comparison(c, "$lt")
    [] c.kind = "in"  -> translate_in_condition(c)
    [] c.kind = "and" -> translate_and_condition(c)
    [] c.kind = "or"  -> translate_or_condition(c)
    [] OTHER          -> FALSE

\* The clauses of a condition: itself and the arguments of a conjunction or
\* disjunction.
SubClauses(cond) == {cond} \cup {cond.args[i] : i \in 1..Len(cond.args)}

(***************************************************************************)
(* The collection and its cursors. The documents of a cursor are those of  *)
(* the collection that match its query, in the collection's order.         *)
(***************************************************************************)
CollectionDocuments ==
  <<[city |-> "Paris", name |-> "Ann", age |-> "41"],
    [city |-> "Rome",  name |-> "Ann", age |-> "35"],
    [city |-> "Paris", name |-> "Bob", age |-> "19"]>>

\* Whether a document matches a query document: every element of the query
\* is a field of the document with that value.
Matches(query, doc) ==
  \A i \in 1..Len(query) : doc[query[i].key] = query[i].value

\* The indices in the collection of the documents a cursor on query yields.
CursorResult(query) ==
  SelectSeq([i \in 1..Len(CollectionDocuments) |-> i],
            LAMBDA i : Matches(query, CollectionDocuments[i]))

\* The messages of the errors of the driver, each by the texts the handler
\* looks for in it, and no error.
NoError == {}

ErrorMessages ==
  {{"connection refused"}, {"No suitable servers found"}, {"Authentication failed"},
   {"not authorized"}, {"Collection", "not found"}, {"not found"}, {"cursor is invalid"}}

NullCursor == [null |-> TRUE, query |-> <<>>, consumed |-> 0, error |-> NoError]

\* mongoc_collection_find_with_opts(collection, query, ...).
mongoc_collection_find_with_opts(query) ==
  [null |-> FALSE, query |-> query.elements, consumed |-> 0, error |-> NoError]

\* mongoc_cursor_next: whether there is a next document, which one, and the
\* cursor after the call; a cursor with an error has none.
mongoc_cursor_next(cur) ==
  IF cur.error = NoError /\ cur.consumed < Len(CursorResult(cur.query))
  THEN [more |-> TRUE, doc |-> CursorResult(cur.query)[cur.consumed + 1],
        cursor |-> [cur EXCEPT !.consumed = @ + 1]]
  ELSE [more |-> FALSE, doc |-> 0, cursor |-> cur]

\* mongoc_cursor_error and strstr(error.message, text).
mongoc_cursor_error(cur) == cur.error # NoError

strstr(message, text) == text \in message

\* The conditions the server pushes.
Conditions ==
  {NoCondition,
   Comparison("eq", "city", "Paris"),
   Comparison("eq", "name", "Ann"),
   Condition("and", <<Comparison("eq", "name", "Ann"), Comparison("gt", "age", "30")>>)}

\* "pushed_condition ? bson_copy(pushed_condition) : bson_new()".
QueryOf(pushed) == IF pushed.null THEN Bson(<<>>) ELSE Bson(pushed.elements)

(***************************************************************************)
(* The scan hooks of ha_mongodb (src/src/ha_mongodb_handler.cc) as         *)
(* functions of the handler's fields h; each gives the fields after the    *)
(* call, the return code and the collection index of the document read.    *)
(***************************************************************************)
Outcome(h, rc, doc) == [h |-> h, rc |-> rc, doc |-> doc]

\* ha_mongodb::rnd_init(scan); connected is what connect_to_mongodb achieves
\* if the handler has no collection yet.
rnd_init(h, scan, connected) ==
  LET h1 == IF scan THEN [h EXCEPT !.pushed_condition = NullBson] ELSE h
  IN  IF ~h1.collection /\ ~connected
      THEN Outcome(h1, "1", 0)
      ELSE Outcome([h1 EXCEPT !.collection = TRUE,
                              !.scan_position = 0,
                              !.cursor = mongoc_collection_find_with_opts(
                                           QueryOf(h1.pushed_condition)),
                              !.overwritten = @ \/ ~h1.cursor.null,
                              !.current_doc = 0],
                   "0", 0)

\* ha_mongodb::rnd_next.
rnd_next(h) ==
  IF h.cursor.null
  THEN Outcome(h, "HA_ERR_END_OF_FILE", 0)
  ELSE LET n     == mongoc_cursor_next(h.cursor)
           error == h.cursor.error
       IN  IF ~n.more
           THEN IF mongoc_cursor_error(h.cursor)
                THEN IF strstr(error, "connection refused")
                        \/ strstr(error, "No suitable servers found")
                     THEN Outcome([h EXCEPT !.current_doc = 0], "HA_ERR_NO_CONNECTION", 0)
                     ELSE IF strstr(error, "Authentication failed")
                             \/ strstr(error, "not authorized")
                     THEN Outcome([h EXCEPT !.current_doc = 0], "HA_ERR_NO_CONNECTION", 0)
                     ELSE IF strstr(error, "Collection") /\ strstr(error, "not found")
                     THEN Outcome([h EXCEPT !.current_doc = 0], "HA_ERR_NO_SUCH_TABLE", 0)
                     ELSE Outcome([h EXCEPT !.current_doc = 0], "HA_ERR_INTERNAL_ERROR", 0)
                ELSE Outcome([h EXCEPT !.current_doc = 0], "HA_ERR_END_OF_FILE", 0)
           ELSE Outcome([h EXCEPT !.cursor = n.cursor,
                                  !.current_doc = n.doc,
                                  !.scan_position = @ + 1],
                        "0", n.doc)

\* ha_mongodb::rnd_end.
rnd_end(h) ==
  Outcome([h EXCEPT !.cursor = NullCursor, !.current_doc = 0], "0", 0)

\* The loop "while (scan_position < target_position)" of rnd_pos: documents
\* are skipped until the position is reached or the cursor is exhausted.
RECURSIVE SkipTo(_, _)
SkipTo(h, target_position) ==
  IF ~(h.scan_position < target_position)
  THEN Outcome(h, "0", 0)
  ELSE LET n == mongoc_cursor_next(h.cursor)
       IN  IF ~n.more
           THEN Outcome(h, "HA_ERR_KEY_NOT_FOUND", 0)
           ELSE SkipTo([h EXCEPT !.cursor = n.cursor, !.scan_position = @ + 1],
                       target_position)

\* ha_mongodb::rnd_pos(buf, pos) for a non-null pos.
rnd_pos(h, target_position) ==
  IF ~h.collection
  THEN Outcome(h, "HA_ERR_WRONG_COMMAND", 0)
  ELSE LET h1 == IF h.cursor.null THEN rnd_init(h, TRUE, TRUE).h ELSE h
           h2 == IF h1.scan_position > target_position
                 THEN [h1 EXCEPT !.cursor = mongoc_collection_find_with_opts(Bson(<<>>)),
                                 !.scan_position = 0]
                 ELSE h1
           skipped == SkipTo(h2, target_position)
       IN  IF skipped.rc # "0" THEN skipped ELSE rnd_next(skipped.h)

\* ha_mongodb::read_range_first.
read_range_first(h) ==
  Outcome([h EXCEPT !.cursor = mongoc_collection_find_with_opts(Bson(<<>>))], "0", 0)

\* ha_mongodb::read_range_next.
read_range_next(h) ==
  IF h.cursor.null
  THEN Outcome(h, "HA_ERR_END_OF_FILE", 0)
  ELSE LET n == mongoc_cursor_next(h.cursor)
       IN  IF ~n.more
           THEN IF mongoc_cursor_error(h.cursor)
                THEN Outcome([h EXCEPT !.current_doc = 0], "HA_ERR_INTERNAL_ERROR", 0)
                ELSE Outcome([h EXCEPT !.current_doc = 0], "HA_ERR_END_OF_FILE", 0)
           ELSE Outcome([h EXCEPT !.cursor = n.cursor, !.current_doc = n.doc], "0", n.doc)

\* ha_mongodb::index_read_map; connected is what connect_to_mongodb achieves
\* if the handler has no collection yet.
index_read_map(h, connected) ==
  IF ~h.collection /\ ~connected
  THEN Outcome(h, "HA_ERR_INTERNAL_ERROR", 0)
  ELSE LET h1 == [h EXCEPT !.collection = TRUE]
           h2 == IF h1.cursor.null
                 THEN [h1 EXCEPT !.cursor = mongoc_collection_find_with_opts(
                                              QueryOf(h1.pushed_condition)),
                                 !.current_doc = 0,
                                 !.scan_position = 0]
                 ELSE h1
           n  == mongoc_cursor_next(h2.cursor)
       IN  IF ~n.more
           THEN IF mongoc_cursor_error(h2.cursor)
                THEN Outcome([h2 EXCEPT !.current_doc = 0], "HA_ERR_INTERNAL_ERROR", 0)
                ELSE Outcome([h2 EXCEPT !.current_doc = 0], "HA_ERR_END_OF_FILE", 0)
           ELSE Outcome([h2 EXCEPT !.cursor = n.cursor, !.current_doc = n.doc], "0", n.doc)

\* ha_mongodb::index_next.
index_next(h) ==
  IF h.cursor.null
  THEN Outcome(h, "HA_ERR_END_OF_FILE", 0)
  ELSE LET n == mongoc_cursor_next(h.cursor)
       IN  IF ~n.more
           THEN IF mongoc_cursor_error(h.cursor)
                THEN Outcome([h EXCEPT !.current_doc = 0], "HA_ERR_INTERNAL_ERROR", 0)
                ELSE Outcome([h EXCEPT !.current_doc = 0], "HA_ERR_END_OF_FILE", 0)
           ELSE Outcome([h EXCEPT !.cursor = n.cursor, !.current_doc = n.doc], "0", n.doc)

\* ha_mongodb::index_end.
index_end(h) ==
  Outcome([h EXCEPT !.cursor = NullCursor, !.current_doc = 0], "0", 0)

\* ha_mongodb::position: the position of the record read last.
position(h) == [h EXCEPT !.ref = h.scan_position - 1]

\* ha_mongodb::close, which is disconnect_from_mongodb for the scan.
close(h) ==
  Outcome([h EXCEPT !.cursor = NullCursor, !.collection = FALSE, !.current_doc = 0],
          "0", 0)

\* ha_mongodb::cond_push: the fields after the call, the condition returned
\* (NoCondition: the handler takes the condition over) and the filter built.
cond_push(h, cond) ==
  IF cond = NoCondition
  THEN [h |-> h, returned |-> NoCondition, match_filter |-> NullBson]
  ELSE LET r == translate_condition_to_bson(cond, Bson(<<>>))
       IN  IF r.result
           THEN [h |-> [h EXCEPT !.pushed_condition = r.match_filter],
                 returned |-> NoCondition, match_filter |-> r.match_filter]
           ELSE [h |-> h, returned |-> cond, match_filter |-> NullBson]

\* ha_mongodb::cond_pop.
cond_pop(h) == [h EXCEPT !.pushed_condition = NullBson]

\* The call made by the last step and what it returned.
HandlerCall(op, rc, doc) ==
  [op |-> op, rc |-> rc, doc |-> doc, pos |-> 0, error |-> NoError, cond |-> NoCondition,
   returned |-> NoCondition, match_filter |-> NullBson]

NoAccepted == [active |-> FALSE, cond |-> NoCondition, filter |-> <<>>]

ScanUnused ==
  /\ pushed_condition = NullBson
  /\ cursor = NullCursor
  /\ current_doc = 0
  /\ scan_position = 0
  /\ collection = FALSE
  /\ accepted = NoAccepted
  /\ ref = 0
  /\ ref_doc = 0
  /\ overwritten = FALSE
  /\ handler_call = HandlerCall("none", "0", 0)

(***************************************************************************)
(* The URI parser (src/src/mongodb_uri_parser.cc). Positions are those of  *)
(* the code, counted from 0.                                               *)
(***************************************************************************)
npos == -1

Min(a, b) == IF a < b THEN a ELSE b

\* std::string::substr(pos, n) and substr(pos).
Substr(s, pos, n) == SubSeq(s, pos + 1, Min(pos + n, Len(s)))

SubstrFrom(s, pos) == SubSeq(s, pos + 1, Len(s))

\* std::string::find(c, pos).
Find(s, c, pos) ==
  IF \E i \in pos..(Len(s) - 1) : s[i + 1] = c
  THEN CHOOSE i \in pos..(Len(s) - 1) :
         s[i + 1] = c /\ \A j \in pos..(i - 1) : s[j + 1] # c
  ELSE npos

\* The character with a code, for the printable codes.
CharOfCode(code) ==
  IF code - 31 \in 1..Len(AsciiOrder) THEN AsciiOrder[code - 31] ELSE "<?>"

\* "std::istringstream(two characters) >> std::hex >> hex_val": the value of
\* the hexadecimal digits the two characters start with, 0 when there is none.
HexValue(two) ==
  LET lower == <<"0", "1", "2", "3", "4", "5", "6", "7", "8", "9",
                 "a", "b", "c", "d", "e", "f">>
      upper == <<"0", "1", "2", "3", "4", "5", "6", "7", "8", "9",
                 "A", "B", "C", "D", "E", "F">>
      IsHexDigit(c) == \E i \in 1..16 : lower[i] = c \/ upper[i] = c
      HexDigitValue(c) == (CHOOSE i \in 1..16 : lower[i] = c \/ upper[i] = c) - 1
  IN  IF Len(two) >= 1 /\ IsHexDigit(two[1])
      THEN IF Len(two) >= 2 /\ IsHexDigit(two[2])
           THEN 16 * HexDigitValue(two[1]) + HexDigitValue(two[2])
           ELSE HexDigitValue(two[1])
      ELSE 0

\* MongoURIParser::url_decode, from position i on.
RECURSIVE UrlDecodeFrom(_, _)
UrlDecodeFrom(encoded, i) ==
  IF ~(i < Len(encoded)) THEN <<>>
  ELSE IF encoded[i + 1] = "%" /\ i + 2 < Len(encoded)
  THEN <<CharOfCode(HexValue(Substr(encoded, i + 1, 2)))>> \o UrlDecodeFrom(encoded, i + 3)
  ELSE IF encoded[i + 1] = "+"
  THEN <<" ">> \o UrlDecodeFrom(encoded, i + 1)
  ELSE <<encoded[i + 1]>> \o UrlDecodeFrom(encoded, i + 1)

url_decode(encoded) == UrlDecodeFrom(encoded, 0)

\* MongoURIParser::split_key_value.
split_key_value(kv, delimiter) ==
  LET pos == Find(kv, delimiter, 0)
  IN  IF pos # npos
      THEN [first |-> Substr(kv, 0, pos), second |-> SubstrFrom(kv, pos + 1)]
      ELSE [first |-> kv, second |-> <<>>]

\* MongoURIParser::split_string: the items between the delimiters that are
\* not empty.
RECURSIVE split_string(_, _)
split_string(str, delimiter) ==
  IF str = <<>> THEN <<>>
  ELSE LET pos  == Find(str, delimiter, 0)
           item == IF pos = npos THEN str ELSE Substr(str, 0, pos)
           rest == IF pos = npos THEN <<>> ELSE SubstrFrom(str, pos + 1)
       IN  (IF item = <<>> THEN <<>> ELSE <<item>>) \o split_string(rest, delimiter)

\* The value of a sequence of decimal digits.
RECURSIVE DigitsValue(_)
DigitsValue(digits) ==
  IF digits = <<>> THEN 0
  ELSE 10 * DigitsValue(SubSeq(digits, 1, Len(digits) - 1))
       + (CharRank(digits[Len(digits)]) - CharRank("0"))

\* The longest prefix of s made of decimal digits.
RECURSIVE DigitPrefix(_)
DigitPrefix(s) ==
  IF s = <<>> \/ ~isdigit(s[1]) THEN <<>> ELSE <<s[1]>> \o DigitPrefix(Tail(s))

RECURSIVE SkipSpaces(_)
SkipSpaces(s) == IF s # <<>> /\ s[1] = " " THEN SkipSpaces(Tail(s)) ELSE s

RECURSIVE SkipZeros(_)
SkipZeros(s) == IF Len(s) > 1 /\ s[1] = "0" THEN SkipZeros(Tail(s)) ELSE s

\* std::stoi: leading spaces, an optional sign and the digits that follow;
\* it throws when there is no digit or the value does not fit an int (here:
\* more than nine significant digits).
stoi(s) ==
  LET t       == SkipSpaces(s)
      signed  == t # <<>> /\ t[1] \in {"+", "-"}
      digits  == DigitPrefix(IF signed THEN Tail(t) ELSE t)
      value   == DigitsValue(digits)
  IN  IF digits = <<>> \/ Len(SkipZeros(digits)) > 9
      THEN [thrown |-> TRUE, value |-> 0]
      ELSE [thrown |-> FALSE,
            value  |-> IF signed /\ t[1] = "-" THEN 0 - value ELSE value]

\* std::to_string(int).
RECURSIVE NatToString(_)
NatToString(n) ==
  IF n < 10 THEN <<CharOfCode(48 + n)>>
  ELSE NatToString(n \div 10) \o <<CharOfCode(48 + (n % 10))>>

to_string(n) == IF n < 0 THEN <<"-">> \o NatToString(0 - n) ELSE NatToString(n)

\* MongoURI(): the default-constructed result.
MongoURI ==
  [is_srv |-> FALSE, username |-> <<>>, password |-> <<>>, auth_source |-> <<>>,
   hosts |-> <<>>, replica_set |-> <<>>, database |-> <<>>, collection |-> <<>>,
   ssl |-> FALSE, connect_timeout_ms |-> 30000, socket_timeout_ms |-> 30000,
   options |-> EmptyMap, is_valid |-> FALSE, error_message |-> <<>>]

\* What a parsing step returns: its bool, and result and pos after it.
Parsed(ok, result, pos) == [ok |-> ok, result |-> result, pos |-> pos]

\* An error_message: a fixed text followed by the offending text.
ErrorMessage(text, detail) == <<text>> \o detail

\* MongoURIParser::validate_hostname: 1 to 253 characters; "localhost", or
\* an alphanumeric character, or two of them around alphanumeric characters,
\* hyphens and dots.
IsHostChar(c) == isalnum(c) \/ c = "-" \/ c = "."

validate_hostname(hostname) ==
  /\ ~(hostname = <<>> \/ Len(hostname) > 253)
  /\ \/ hostname = <<"l", "o", "c", "a", "l", "h", "o", "s", "t">>
     \/ /\ isalnum(hostname[1])
        /\ isalnum(hostname[Len(hostname)])
        /\ \A i \in 2..(Len(hostname) - 1) : IsHostChar(hostname[i])

\* validate_port without the lower end of the range.
validate_port_no_lower(port) == port <= 65535

\* MongoURIParser::validate_port.
validate_port(port) == port > 0 /\ port <= 65535

\* MongoURIParser::validate_database_name.
InvalidDatabaseChars == {"/", "\\", ".", " ", "\"", "$", "*", "<", ">", ":", "|", "?"}

validate_database_name(database) ==
  /\ ~(database = <<>> \/ Len(database) > 64)
  /\ \A i \in 1..Len(database) : database[i] \notin InvalidDatabaseChars

\* MongoURIParser::validate_collection_name (no string of the model holds a
\* NUL character).
validate_collection_name(collection_name) ==
  /\ ~(collection_name = <<>> \/ Len(collection_name) > 120)
  /\ ~(collection_name[1] = "$")

\* MongoURIParser::parse_protocol.
parse_protocol(uri, result, pos) ==
  IF Substr(uri, 0, 14) = <<"m", "o", "n", "g", "o", "d", "b", "+", "s", "r", "v", ":", "/", "/">>
  THEN Parsed(TRUE, [result EXCEPT !.is_srv = TRUE], 14)
  ELSE IF Substr(uri, 0, 10) = <<"m", "o", "n", "g", "o", "d", "b", ":", "/", "/">>
  THEN Parsed(TRUE, [result EXCEPT !.is_srv = FALSE], 10)
  ELSE Parsed(FALSE,
              [result EXCEPT !.error_message = ErrorMessage("Invalid protocol", <<>>)],
              pos)

\* MongoURIParser::parse_credentials.
parse_credentials(uri, result, pos) ==
  LET at_pos       == Find(uri, "@", pos)
      slash_pos    == Find(uri, "/", pos)
      question_pos == Find(uri, "?", pos)
      end_pos      == Min(IF slash_pos # npos THEN slash_pos ELSE Len(uri),
                          IF question_pos # npos THEN question_pos ELSE Len(uri))
      creds        == Substr(uri, pos, at_pos - pos)
      colon_pos    == Find(creds, ":", 0)
  IN  IF at_pos = npos THEN Parsed(TRUE, result, pos)
      ELSE IF at_pos > end_pos THEN Parsed(TRUE, result, pos)
      ELSE IF colon_pos # npos
      THEN Parsed(TRUE,
                  [result EXCEPT !.username = url_decode(Substr(creds, 0, colon_pos)),
                                 !.password = url_decode(SubstrFrom(creds, colon_pos + 1))],
                  at_pos + 1)
      ELSE Parsed(TRUE, [result EXCEPT !.username = url_decode(creds)], at_pos + 1)

\* The loop of parse_hosts over host_list.
RECURSIVE ParseHostList(_, _)
ParseHostList(host_list, result) ==
  IF host_list = <<>> THEN [ok |-> TRUE, result |-> result]
  ELSE LET host_port == Head(host_list)
           colon_pos == Find(host_port, ":", 0)
           host      == IF colon_pos # npos THEN Substr(host_port, 0, colon_pos)
                        ELSE host_port
           port_text == SubstrFrom(host_port, colon_pos + 1)
           converted == IF colon_pos # npos THEN stoi(port_text)
                        ELSE [thrown |-> FALSE, value |-> 27017]
           port      == converted.value
       IN  IF converted.thrown
           THEN [ok |-> FALSE,
                 result |-> [result EXCEPT !.error_message =
                               ErrorMessage("Invalid port number: ", port_text)]]
           ELSE IF ~validate_hostname(host)
           THEN [ok |-> FALSE,
                 result |-> [result EXCEPT !.error_message =
                               ErrorMessage("Invalid hostname: ", host)]]
           ELSE IF ~validate_port(port)
           THEN [ok |-> FALSE,
                 result |-> [result EXCEPT !.error_message =
                               ErrorMessage("Invalid port: ", to_string(port))]]
           ELSE ParseHostList(Tail(host_list),
                              [result EXCEPT !.hosts =
                                 Append(@, [host |-> host, port |-> port])])

\* MongoURIParser::parse_hosts.
parse_hosts(uri, result, pos) ==
  LET slash_pos    == Find(uri, "/", pos)
      question_pos == Find(uri, "?", pos)
      end_pos      == IF slash_pos # npos THEN slash_pos
                      ELSE IF question_pos # npos THEN question_pos
                      ELSE Len(uri)
      hosts_str    == Substr(uri, pos, end_pos - pos)
      listed       == ParseHostList(split_string(hosts_str, ","), result)
  IN  IF hosts_str = <<>>
      THEN Parsed(FALSE,
                  [result EXCEPT !.error_message = ErrorMessage("No hosts specified", <<>>)],
                  end_pos)
      ELSE Parsed(listed.ok, listed.result, end_pos)

\* MongoURIParser::parse_database_collection.
parse_database_collection(uri, result, pos) ==
  IF pos >= Len(uri) \/ uri[pos + 1] # "/" THEN Parsed(TRUE, result, pos)
  ELSE LET question_pos == Find(uri, "?", pos + 1)
           end_pos   == IF question_pos # npos THEN question_pos ELSE Len(uri)
           path      == Substr(uri, pos + 1, end_pos - (pos + 1))
           slash_pos == Find(path, "/", 0)
           named     == IF slash_pos # npos
                        THEN [result EXCEPT !.database = Substr(path, 0, slash_pos),
                                            !.collection = SubstrFrom(path, slash_pos + 1)]
                        ELSE [result EXCEPT !.database = path]
       IN  IF named.database # <<>> /\ ~validate_database_name(named.database)
           THEN Parsed(FALSE,
                       [named EXCEPT !.error_message =
                          ErrorMessage("Invalid database name: ", named.database)],
                       end_pos)
           ELSE IF named.collection # <<>> /\ ~validate_collection_name(named.collection)
           THEN Parsed(FALSE,
                       [named EXCEPT !.error_message =
                          ErrorMessage("Invalid collection name: ", named.collection)],
                       end_pos)
           ELSE Parsed(TRUE, named, end_pos)

\* "result.options[key] = value".
SetOption(options, key, value) ==
  [k \in DOMAIN options \cup {key} |-> IF k = key THEN value ELSE options[k]]

\* The loop of parse_options over option_pairs.
RECURSIVE ParseOptionPairs(_, _)
ParseOptionPairs(option_pairs, result) ==
  IF option_pairs = <<>> THEN [ok |-> TRUE, result |-> result]
  ELSE LET kv    == split_key_value(Head(option_pairs), "=")
           key   == url_decode(kv.first)
           value == url_decode(kv.second)
           rest  == Tail(option_pairs)
       IN  IF kv.first = <<>> THEN ParseOptionPairs(rest, result)
           ELSE IF key = <<"a", "u", "t", "h", "S", "o", "u", "r", "c", "e">>
           THEN ParseOptionPairs(rest, [result EXCEPT !.auth_source = value])
           ELSE IF key = <<"r", "e", "p", "l", "i", "c", "a", "S", "e", "t">>
           THEN ParseOptionPairs(rest, [result EXCEPT !.replica_set = value])
           ELSE IF key = <<"s", "s", "l">> \/ key = <<"t", "l", "s">>
           THEN ParseOptionPairs(rest, [result EXCEPT !.ssl =
                                          (value = <<"t", "r", "u", "e">> \/ value = <<"1">>)])
           ELSE IF key = <<"c", "o", "n", "n", "e", "c", "t", "T", "i", "m", "e", "o", "u", "t", "M", "S">>
           THEN IF stoi(value).thrown
                THEN [ok |-> FALSE,
                      result |-> [result EXCEPT !.error_message =
                                    ErrorMessage("Invalid connectTimeoutMS: ", value)]]
                ELSE ParseOptionPairs(rest, [result EXCEPT !.connect_timeout_ms =
                                               stoi(value).value])
           ELSE IF key = <<"s", "o", "c", "k", "e", "t", "T", "i", "m", "e", "o", "u", "t", "M", "S">>
           THEN IF stoi(value).thrown
                THEN [ok |-> FALSE,
                      result |-> [result EXCEPT !.error_message =
                                    ErrorMessage("Invalid socketTimeoutMS: ", value)]]
                ELSE ParseOptionPairs(rest, [result EXCEPT !.socket_timeout_ms =
                                               stoi(value).value])
           ELSE ParseOptionPairs(rest, [result EXCEPT !.options =
                                          SetOption(@, key, value)])

\* parse_options returning true whatever its pairs hold.
parse_options_always_true(uri, result, pos) ==
  IF pos >= Len(uri) \/ uri[pos + 1] # "?" THEN Parsed(TRUE, result, pos)
  ELSE LET paired == ParseOptionPairs(split_string(SubstrFrom(uri, pos + 1), "&"), result)
       IN  Parsed(TRUE, paired.result, pos + 1)

\* MongoURIParser::parse_options.
parse_options(uri, result, pos) ==
  IF pos >= Len(uri) \/ uri[pos + 1] # "?" THEN Parsed(TRUE, result, pos)
  ELSE LET paired == ParseOptionPairs(split_string(SubstrFrom(uri, pos + 1), "&"), result)
       IN  Parsed(paired.ok, paired.result, pos + 1)

\* MongoURIParser::parse.
parse(text) ==
  LET protocol    == parse_protocol(text, MongoURI, 0)
      credentials == parse_credentials(text, protocol.result, protocol.pos)
      hosts       == parse_hosts(text, credentials.result, credentials.pos)
      path        == parse_database_collection(text, hosts.result, hosts.pos)
      options     == parse_options(text, path.result, path.pos)
      result      == options.result
  IN  IF text = <<>>
      THEN [MongoURI EXCEPT !.error_message = ErrorMessage("Empty connection string", <<>>)]
      ELSE IF ~protocol.ok THEN protocol.result
      ELSE IF ~credentials.ok THEN credentials.result
      ELSE IF ~hosts.ok THEN hosts.result
      ELSE IF ~path.ok THEN path.result
      ELSE IF ~options.ok THEN options.result
      ELSE IF result.hosts = <<>>
      THEN [result EXCEPT !.error_message = ErrorMessage("No hosts specified", <<>>)]
      ELSE IF result.database = <<>>
      THEN [result EXCEPT !.error_message = ErrorMessage("Database name is required", <<>>)]
      ELSE IF result.collection = <<>>
      THEN [result EXCEPT !.error_message =
              ErrorMessage("Collection name is required for storage engine", <<>>)]
      ELSE [result EXCEPT !.is_valid = TRUE]

\* The hosts part of to_connection_string.
RECURSIVE HostsString(_, _)
HostsString(hosts, i) ==
  IF i > Len(hosts) THEN <<>>
  ELSE (IF i > 1 THEN <<",">> ELSE <<>>)
       \o hosts[i].host
       \o (IF hosts[i].port # 27017 THEN <<":">> \o to_string(hosts[i].port) ELSE <<>>)
       \o HostsString(hosts, i + 1)

\* "for (opt : options) option_parts.push_back(opt.first + "=" + opt.second)":
\* the pass-through options in the order of their keys.
RECURSIVE CustomOptionParts(_)
CustomOptionParts(options) ==
  IF DOMAIN options = {} THEN <<>>
  ELSE LET first == CHOOSE k \in DOMAIN options :
                      \A o \in DOMAIN options \ {k} : StringLess(k, o)
       IN  <<first \o <<"=">> \o options[first]>>
           \o CustomOptionParts([k \in DOMAIN options \ {first} |-> options[k]])

\* The option_parts of to_connection_string.
OptionParts(u) ==
  (IF u.auth_source # <<>> /\ u.auth_source # u.database
   THEN <<<<"a", "u", "t", "h", "S", "o", "u", "r", "c", "e", "=">> \o u.auth_source>> ELSE <<>>)
  \o (IF u.replica_set # <<>>
      THEN <<<<"r", "e", "p", "l", "i", "c", "a", "S", "e", "t", "=">> \o u.replica_set>> ELSE <<>>)
  \o (IF u.ssl THEN <<<<"s", "s", "l", "=", "t", "r", "u", "e">>>> ELSE <<>>)
  \o (IF u.connect_timeout_ms # 30000
      THEN <<<<"c", "o", "n", "n", "e", "c", "t", "T", "i", "m", "e", "o", "u", "t", "M", "S", "=">> \o to_string(u.connect_timeout_ms)>> ELSE <<>>)
  \o (IF u.socket_timeout_ms # 30000
      THEN <<<<"s", "o", "c", "k", "e", "t", "T", "i", "m", "e", "o", "u", "t", "M", "S", "=">> \o to_string(u.socket_timeout_ms)>> ELSE <<>>)
  \o CustomOptionParts(u.options)

\* The parts joined by separator.
RECURSIVE Joined(_, _)
Joined(parts, separator) ==
  IF parts = <<>> THEN <<>>
  ELSE IF Len(parts) = 1 THEN parts[1]
  ELSE parts[1] \o <<separator>> \o Joined(Tail(parts), separator)

\* MongoURI::to_connection_string.
to_connection_string(u) ==
  IF ~u.is_valid THEN <<>>
  ELSE (IF u.is_srv THEN <<"m", "o", "n", "g", "o", "d", "b", "+", "s", "r", "v", ":", "/", "/">> ELSE <<"m", "o", "n", "g", "o", "d", "b", ":", "/", "/">>)
       \o (IF u.username # <<>>
           THEN u.username
                \o (IF u.password # <<>> THEN <<":">> \o u.password ELSE <<>>)
                \o <<"@">>
           ELSE <<>>)
       \o HostsString(u.hosts, 1)
       \o (IF u.database # <<>> THEN <<"/">> \o u.database ELSE <<>>)
       \o (IF OptionParts(u) # <<>> THEN <<"?">> \o Joined(OptionParts(u), "&") ELSE <<>>)

\* MongoURI::to_safe_string with the password written out.
to_safe_string_unmasked(u) ==
  IF ~u.is_valid THEN <<"I", "N", "V", "A", "L", "I", "D", "_", "U", "R", "I">>
  ELSE (IF u.is_srv THEN <<"m", "o", "n", "g", "o", "d", "b", "+", "s", "r", "v", ":", "/", "/">> ELSE <<"m", "o", "n", "g", "o", "d", "b", ":", "/", "/">>)
       \o (IF u.username # <<>>
           THEN u.username
                \o (IF u.password # <<>> THEN <<":">> \o u.password ELSE <<>>)
                \o <<"@">>
           ELSE <<>>)
       \o HostsString(u.hosts, 1)
       \o (IF u.database # <<>>
           THEN <<"/">> \o u.database
                \o (IF u.collection # <<>> THEN <<"/">> \o u.collection ELSE <<>>)
           ELSE <<>>)

\* MongoURI::to_safe_string.
to_safe_string(u) ==
  IF ~u.is_valid THEN <<"I", "N", "V", "A", "L", "I", "D", "_", "U", "R", "I">>
  ELSE (IF u.is_srv THEN <<"m", "o", "n", "g", "o", "d", "b", "+", "s", "r", "v", ":", "/", "/">> ELSE <<"m", "o", "n", "g", "o", "d", "b", ":", "/", "/">>)
       \o (IF u.username # <<>>
           THEN u.username
                \o (IF u.password # <<>> THEN <<":", "*", "*", "*">> ELSE <<>>)
                \o <<"@">>
           ELSE <<>>)
       \o HostsString(u.hosts, 1)
       \o (IF u.database # <<>>
           THEN <<"/">> \o u.database
                \o (IF u.collection # <<>> THEN <<"/">> \o u.collection ELSE <<>>)
           ELSE <<>>)

\* Connection strings whose port or timeout std::stoi is given: a port that
\* is no number, no host at all, timeouts that are no numbers after an option
\* that is set, and two timeouts that are numbers.
NumberStrings ==
  {<<"m", "o", "n", "g", "o", "d", "b", ":", "/", "/", "h", "1", ":", "x", "/", "d", "b", "/", "c">>,
   <<"m", "o", "n", "g", "o", "d", "b", ":", "/", "/", "/", "d", "b", "/", "c">>,
   <<"m", "o", "n", "g", "o", "d", "b", ":", "/", "/", "h", "1", "/", "d", "b", "/", "c", "?", "s", "s", "l", "=", "1", "&", "c", "o", "n", "n", "e", "c", "t", "T", "i", "m", "e", "o", "u", "t", "M", "S", "=", "x">>,
   <<"m", "o", "n", "g", "o", "d", "b", ":", "/", "/", "h", "1", "/", "d", "b", "/", "c", "?", "s", "o", "c", "k", "e", "t", "T", "i", "m", "e", "o", "u", "t", "M", "S", "=">>,
   <<"m", "o", "n", "g", "o", "d", "b", ":", "/", "/", "h", "1", "/", "d", "b", "/", "c", "?", "c", "o", "n", "n", "e", "c", "t", "T", "i", "m", "e", "o", "u", "t", "M", "S", "=", "5", "0", "0", "0", "&", "s", "o", "c", "k", "e", "t", "T", "i", "m", "e", "o", "u", "t", "M", "S", "=", "7", "0">>}

\* Connection strings with a slash inside the option string and none before
\* it.
OptionSlashStrings ==
  {<<"m", "o", "n", "g", "o", "d", "b", ":", "/", "/", "h", "1", "?", "w", "=", "a", "/", "b">>,
   <<"m", "o", "n", "g", "o", "d", "b", ":", "/", "/", "u", ":", "p", "@", "h", "1", ":", "2", "7", "0", "1", "8", ",", "h", "2", "?", "x", "=", "/", "d", "b", "/", "c">>}

\* The connection strings given to the parser: a protocol, credentials,
\* hosts, a path and options.
ConnectionStrings ==
  LET protocols   == {<<"m", "o", "n", "g", "o", "d", "b", ":", "/", "/">>, <<"m", "o", "n", "g", "o", "d", "b", "+", "s", "r", "v", ":", "/", "/">>, <<"h", "t", "t", "p", ":", "/", "/">>}
      credentials == {<<>>, <<"u", ":", "p", "@">>, <<"u", ":", "p", "%", "4", "0", "w", "@">>}
      hosts       == {<<"h", "1">>, <<"h", "1", ":", "2", "7", "0", "1", "8", ",", "h", "2">>, <<"-", "h">>, <<"h", "1", ":", "0">>}
      paths       == {<<"/", "d", "b", "/", "c">>, <<"/", "d", "b">>, <<>>, <<"/", "d", ".", "b", "/", "c">>, <<"/", "d", "b", "/", "$", "c">>}
      options     == {<<>>, <<"?", "a", "u", "t", "h", "S", "o", "u", "r", "c", "e", "=", "d", "b">>, <<"?", "s", "s", "l", "=", "1", "&", "w", "=", "a", "%", "2", "6", "b">>}
  IN  {<<>>} \cup NumberStrings \cup OptionSlashStrings \cup {p \o c \o h \o d \o o :
                     p \in protocols, c \in credentials, h \in hosts,
                     d \in paths, o \in options}

UriUnused ==
  /\ connection_string = <<>>
  /\ uri_stage = "given"
  /\ parsed_uri = MongoURI
  /\ rendered = <<>>
  /\ reparsed_uri = MongoURI
  /\ safe_string = <<>>

(***************************************************************************)
(* The document-to-row conversion (src/src/ha_mongodb_handler.cc). A Field *)
(* of the row is its NULL flag, the value last stored in it (which         *)
(* set_null and set_notnull leave alone) and whether the conversion under  *)
(* way has stored a value in it.                                           *)
(***************************************************************************)
\* What Field::store is given.
StoredValue(kind, text, doc) == [kind |-> kind, text |-> text, doc |-> doc]

\* The bytes of a Field nothing was ever stored in.
Uninitialized == StoredValue("uninitialized", "", <<>>)

RowField(is_null, value, stored) ==
  [is_null |-> is_null, value |-> value, stored |-> stored]

\* Field::set_null, Field::set_notnull and Field::store.
set_null(field) == [field EXCEPT !.is_null = TRUE]

set_notnull(field) == [field EXCEPT !.is_null = FALSE]

store(field, value) == [field EXCEPT !.value = value, !.stored = TRUE]

\* An element of a document: its key, the type of its value and the value.
DocElement(key, value_type, value) ==
  [key |-> key, value_type |-> value_type, value |-> value]

\* "bson_iter_init(&iter, doc) && bson_iter_find(&iter, key)": the position of
\* the first element with the key, 0 when there is none.
bson_iter_find(doc, key) ==
  IF \E i \in 1..Len(doc.elements) : doc.elements[i].key = key
  THEN CHOOSE i \in 1..Len(doc.elements) :
         /\ doc.elements[i].key = key
         /\ \A j \in 1..(i - 1) : doc.elements[j].key # key
  ELSE 0

\* The literal stored when no JSON can be made of the document, and the
\* length given to store with it.
JsonErrorText == "{\"error\":\"Failed to convert BSON to JSON\"}"

JsonErrorLength == 37

\* ha_mongodb::convert_mongodb_id_field; canonical_json tells whether
\* bson_as_canonical_extended_json returns a string.
convert_mongodb_id_field(doc, field, canonical_json) ==
  LET found   == bson_iter_find(doc, "_id")
      iter    == doc.elements[found]
      flagged == set_notnull(field)
  IN  IF found = 0 THEN [rc |-> 1, field |-> field]
      ELSE IF iter.value_type = "BSON_TYPE_OID"
      THEN [rc |-> 0, field |-> store(flagged, StoredValue("oid_string", iter.value, <<>>))]
      ELSE IF iter.value_type = "BSON_TYPE_UTF8"
      THEN [rc |-> 0, field |-> store(flagged, StoredValue("string", iter.value, <<>>))]
      ELSE IF iter.value_type = "BSON_TYPE_INT32"
      THEN [rc |-> 0, field |-> store(flagged, StoredValue("int32", iter.value, <<>>))]
      ELSE IF iter.value_type = "BSON_TYPE_INT64"
      THEN [rc |-> 0, field |-> store(flagged, StoredValue("int64", iter.value, <<>>))]
      ELSE IF canonical_json
      THEN [rc |-> 0,
            field |-> store(flagged, StoredValue("canonical_json", "", doc.elements))]
      ELSE [rc |-> 0, field |-> flagged]

\* convert_simple_field_from_document calling set_notnull before it looks
\* the key up.
convert_simple_field_from_document_flag_first(doc, field, field_name) ==
  LET found   == bson_iter_find(doc, field_name)
      iter    == doc.elements[found]
      flagged == set_notnull(field)
  IN  IF found = 0 THEN [rc |-> 0, field |-> flagged]
      ELSE [rc |-> 0,
            field |-> store(flagged, StoredValue("type_desc", iter.value_type, <<>>))]

\* ha_mongodb::convert_simple_field_from_document.
convert_simple_field_from_document(doc, field, field_name) ==
  LET found   == bson_iter_find(doc, field_name)
      iter    == doc.elements[found]
      flagged == set_notnull(field)
  IN  IF found = 0 THEN [rc |-> 0, field |-> field]
      ELSE IF iter.value_type = "BSON_TYPE_INT32"
      THEN [rc |-> 0, field |-> store(flagged, StoredValue("int32", iter.value, <<>>))]
      ELSE IF iter.value_type = "BSON_TYPE_INT64"
      THEN [rc |-> 0, field |-> store(flagged, StoredValue("int64", iter.value, <<>>))]
      ELSE IF iter.value_type = "BSON_TYPE_DOUBLE"
      THEN [rc |-> 0, field |-> store(flagged, StoredValue("double", iter.value, <<>>))]
      ELSE IF iter.value_type = "BSON_TYPE_UTF8"
      THEN [rc |-> 0, field |-> store(flagged, StoredValue("string", iter.value, <<>>))]
      ELSE [rc |-> 0,
            field |-> store(flagged, StoredValue("type_desc", iter.value_type, <<>>))]

\* The "document" branch of convert_document_to_row: the relaxed JSON of the
\* document, else its canonical JSON, else the first JsonErrorLength
\* characters of the error literal.
ConvertDocumentField(doc, field, relaxed_json, canonical_json) ==
  IF relaxed_json
  THEN store(set_notnull(field), StoredValue("relaxed_json", "", doc.elements))
  ELSE IF canonical_json
  THEN store(set_notnull(field), StoredValue("canonical_json", "", doc.elements))
  ELSE store(set_notnull(field),
             StoredValue("literal_prefix", JsonErrorText, <<JsonErrorLength>>))

\* One iteration of the second loop of convert_document_to_row, for the
\* Field with the name field_name.
ConvertField(doc, field, field_name, relaxed_json, canonical_json) ==
  IF field_name = "_id"
  THEN convert_mongodb_id_field(doc, field, canonical_json).field
  ELSE IF field_name = "document"
  THEN ConvertDocumentField(doc, field, relaxed_json, canonical_json)
  ELSE convert_simple_field_from_document(doc, field, field_name).field

\* ha_mongodb::convert_document_to_row: the return value and the Fields of
\* the row after it. buf tells whether the row buffer is there.
convert_document_to_row(doc, buf, fields, names, relaxed_json, canonical_json) ==
  IF doc.null \/ ~buf THEN [rc |-> 1, fields |-> fields]
  ELSE [rc |-> 0,
        fields |-> [i \in DOMAIN fields |->
                      ConvertField(doc, [set_null(fields[i]) EXCEPT !.stored = FALSE],
                                   names[i], relaxed_json, canonical_json)]]

\* The tables: the names of their Fields.
TableFields ==
  {<<"_id", "document", "name">>, <<"_id", "age">>, <<"name", "age">>, <<"id", "age">>}

\* The documents converted: an _id of one of the types or none, the element
\* name or not and the element age or not; and the documents that hold the
\* element age alone, of each of the types.
IdElements ==
  {<<>>} \cup {<<DocElement("_id", t, "1")>> :
                 t \in {"BSON_TYPE_OID", "BSON_TYPE_UTF8", "BSON_TYPE_INT32",
                        "BSON_TYPE_INT64", "BSON_TYPE_DOUBLE"}}

NameElements == {<<>>, <<DocElement("name", "BSON_TYPE_UTF8", "Ann")>>}

OrdinaryTypes ==
  {"BSON_TYPE_INT32", "BSON_TYPE_INT64", "BSON_TYPE_DOUBLE", "BSON_TYPE_UTF8",
   "BSON_TYPE_BOOL", "BSON_TYPE_DATE_TIME", "BSON_TYPE_DOCUMENT", "BSON_TYPE_ARRAY",
   "BSON_TYPE_BINARY", "BSON_TYPE_NULL", "BSON_TYPE_REGEX"}

AgeElements ==
  {<<>>} \cup {<<DocElement("age", t, "1")>> : t \in {"BSON_TYPE_INT32", "BSON_TYPE_BOOL"}}

RowDocuments ==
  {NullBson}
    \cup {Bson(i \o n \o a) : i \in IdElements, n \in NameElements, a \in AgeElements}
    \cup {Bson(<<DocElement("age", t, "1")>>) : t \in OrdinaryTypes}

NoConversion == [op |-> "none", doc |-> NullBson, buf |-> TRUE, rc |-> 0]

ConvertUnused ==
  /\ table_fields = <<>>
  /\ row = <<>>
  /\ convert_call = NoConversion
  /\ rows_converted = 0

(***************************************************************************)
(* The pools of the process (src/src/mongodb_connection.cc): one           *)
(* MongoConnectionPool for each key of global_connection_pools.            *)
(***************************************************************************)
\* The connection strings of the tables: two collections of one database,
\* a collection of another database and a collection of another server.
TableConnectionStrings ==
  {<<"m", "o", "n", "g", "o", "d", "b", ":", "/", "/", "h", "1", "/", "d", "b", "/", "c">>,
   <<"m", "o", "n", "g", "o", "d", "b", ":", "/", "/", "h", "1", "/", "d", "b", "/", "d">>,
   <<"m", "o", "n", "g", "o", "d", "b", ":", "/", "/", "h", "1", "/", "e", "b", "/", "c">>,
   <<"m", "o", "n", "g", "o", "d", "b", ":", "/", "/", "h", "2", "/", "d", "b", "/", "c">>}

\* MongoURIParser::parse of each of them, and the connection string the
\* driver is given for it.
ParsedTableStrings == [text \in TableConnectionStrings |-> parse(text)]

DriverStrings ==
  [text \in TableConnectionStrings |-> to_connection_string(ParsedTableStrings[text])]

\* MongoConnectionPool::MongoConnectionPool(connection_string): the object,
\* which instance tells from every other object constructed. Its parsed_uri
\* is ParsedTableStrings[text]; no function of the pools reads it.
MongoConnectionPool(text, instance) ==
  [instance |-> instance, base_connection_string |-> text]

\* get_or_create_connection_pool(text): the map after the call and the pool
\* returned.
get_or_create_connection_pool(pools, text, instance) ==
  IF text \in DOMAIN pools
  THEN [pools |-> pools, pool |-> pools[text], created |-> FALSE]
  ELSE LET pool == MongoConnectionPool(text, instance)
       IN  [pools   |-> [k \in DOMAIN pools \cup {text} |->
                           IF k = text THEN pool ELSE pools[k]],
            pool    |-> pool,
            created |-> TRUE]

\* cleanup_all_connection_pools().
cleanup_all_connection_pools(pools) == EmptyMap

NoPoolsCall == [op |-> "none", text |-> <<>>, instance |-> 0, created |-> FALSE]

PoolsUnused ==
  /\ global_connection_pools = EmptyMap
  /\ pools_created = 0
  /\ pools_call = NoPoolsCall

(***************************************************************************)
(* The connection of a table handler (src/src/ha_mongodb_handler.cc).      *)
(***************************************************************************)
\* The fields of a handler that connect_to_mongodb and
\* disconnect_from_mongodb touch, and the clients alive besides.
HandlerConnection(client, has_collection, pooled, live) ==
  [client |-> client, collection |-> has_collection, from_pool |-> pooled,
   live |-> live]

\* ha_mongodb::connect_to_mongodb with the share complete: new_client is
\* what mongoc_client_new returns (NULL for nullptr), got_database and
\* got_collection tell whether the two handles are returned.
connect_to_mongodb(h, new_client, got_database, got_collection) ==
  IF new_client = NULL
  THEN [rc |-> 1, handler |-> h]
  ELSE IF ~got_database \/ ~got_collection
  THEN [rc |-> 1, handler |-> [h EXCEPT !.client = NULL]]
  ELSE [rc |-> 0,
        handler |-> [h EXCEPT !.client = new_client, !.collection = TRUE,
                              !.from_pool = FALSE,
                              !.live = @ \cup {new_client}]]

\* ha_mongodb::disconnect_from_mongodb.
disconnect_from_mongodb(h) ==
  [h EXCEPT !.client = NULL, !.collection = FALSE, !.from_pool = FALSE,
            !.live = @ \ {h.client}]

Handlers == 1..NumHandlers

\* The address mongoc_client_new gives a new client: one no live client has.
NewClientAddress(live) ==
  CHOOSE c \in Handlers \ live : \A d \in Handlers \ live : c <= d

NoHandlersCall == [op |-> "none", handler |-> 0, rc |-> 0]

HandlersUnused ==
  /\ handler_open = <<>>
  /\ handler_client = <<>>
  /\ handler_collection = <<>>
  /\ from_pool = <<>>
  /\ live_clients = {}
  /\ handlers_call = NoHandlersCall

(***************************************************************************)
(* MongoConnectionPool::cleanup, under pool_mutex: the client of every     *)
(* entry is destroyed, the vector is cleared and the active count is set   *)
(* to zero. destroyed holds the connection_id of the entries whose client  *)
(* mongoc_client_destroy was called on.                                    *)
(***************************************************************************)
DestroyedBy(conns) ==
  {conns[i].connection_id : i \in {j \in 1..Len(conns) : conns[j].client # NULL}}

\* cleanup without "active_connections = 0".
cleanup_keeps_count(conns) ==
  [conns |-> <<>>, active |-> BusyCount(conns), destroyed |-> DestroyedBy(conns)]

\* cleanup without "connections.clear()".
cleanup_without_clear(conns) ==
  [conns |-> conns, active |-> 0, destroyed |-> DestroyedBy(conns)]

cleanup(conns) ==
  [conns |-> <<>>, active |-> 0, destroyed |-> DestroyedBy(conns)]

\* The connection_id of the entries cleanup_idle_connections removes, whose
\* clients it destroys.
ReapedIds(conns, t, timeout) ==
  {conns[i].connection_id : i \in {j \in 1..Len(conns) : IsReaped(conns[j], t, timeout)}}

(***************************************************************************)
(* MongoConnectionPool::create_new_connection. driver is what the driver   *)
(* does in the call: it rejects the URI (mongoc_uri_new returns null), it  *)
(* gives no client, the ping fails, the collStats probe fails, or all      *)
(* succeed. fresh is the address of the client the driver allocates. The   *)
(* result is the client returned, NULL for nullptr.                        *)
(***************************************************************************)
DriverOutcomes == {"ok", "uri_rejected", "no_client", "ping_failed", "coll_stats_failed"}

\* create_new_connection returning the client whose ping failed.
create_new_connection_ping_ignored(is_valid, driver, fresh) ==
  IF ~is_valid THEN NULL
  ELSE IF driver = "uri_rejected" THEN NULL
  ELSE IF driver = "no_client" THEN NULL
  ELSE fresh

create_new_connection(is_valid, driver, fresh) ==
  IF ~is_valid THEN NULL
  ELSE IF driver = "uri_rejected" THEN NULL
  ELSE IF driver = "no_client" THEN NULL
  ELSE IF driver = "ping_failed" THEN NULL
  ELSE fresh

\* The number of create_new_connection calls of one acquire_connection on
\* the entries the reaping left: one when no entry is free and the pool is
\* under its limit, none otherwise.
CreationCalls(kept, max) ==
  IF find_available_connection(kept) = 0 /\ UnderLimit(kept, max) THEN 1 ELSE 0

\* MongoConnectionPool::is_healthy.
is_healthy(conns, max, active) == Len(conns) <= max /\ active <= Len(conns)

\* MongoConnectionPool::set_max_connections.
set_max_connections(max_conn) == max_conn

\* closed after one more mongoc_client_destroy on the clients of ids.
ClosedAfter(counts, ids) ==
  [id \in DOMAIN counts |-> IF id \in ids THEN counts[id] + 1 ELSE counts[id]]

ConnectionIds == 1..MaxClientsCreated

NoLifecycleCall == [op |-> "none", destroyed |-> {}, creation |-> "not_called"]

LifecycleUnused ==
  /\ closed = [id \in ConnectionIds |-> 0]
  /\ pool_alive = TRUE
  /\ pool_uri_valid = TRUE
  /\ lifecycle_call = NoLifecycleCall

(***************************************************************************)
(* The accesses to the fields of a pool. Access(t, op, mutex) is the       *)
(* access thread t makes in function op; locked tells whether t holds      *)
(* pool_mutex while it makes it.                                           *)
(***************************************************************************)
Access(t, op, locked) == [thread |-> t, op |-> op, locked |-> locked]

NoAccess == Access(NULL, "none", TRUE)

\* What is_healthy() reads, and what it returns.
Observation(size, active, healthy) ==
  [size |-> size, active |-> active, healthy |-> healthy]

NoObservation == Observation(0, 0, TRUE)

\* The idle timeouts set_idle_timeout is called with, in seconds.
IdleTimeouts == {MONGODB_DEFAULT_IDLE_TIMEOUT_SECONDS, 2 * MONGODB_DEFAULT_IDLE_TIMEOUT_SECONDS}

LockingUnused ==
  /\ pool_mutex = NULL
  /\ lock_pc = [t \in Threads |-> "idle"]
  /\ pool_access = NoAccess
  /\ observed = NoObservation

(***************************************************************************)
(* The global maps of pools and of schema registries, each behind its own  *)
(* lock (global_pool_mutex, global_schema_mutex). The maps hold the only   *)
(* shared_ptr to an object, so erasing an entry runs the destructor of the *)
(* object: ~MongoConnectionPool calls cleanup(), which closes the clients  *)
(* of the pool, and ~MongoSchemaRegistry closes schema_client.             *)
(***************************************************************************)
\* MongoSchemaRegistry(connection_str): mongoc_client_new_from_uri gives the
\* client, or null; nothing is sent to a server.
MongoSchemaRegistry(text, client) ==
  [connection_string |-> text, schema_client |-> client]

\* The network operations of ~MongoConnectionPool on a pool.
PoolDestructorNetwork(pool, connected) ==
  IF pool.instance \in connected THEN {"close"} ELSE {}

\* The network operations of ~MongoSchemaRegistry on a registry.
RegistryDestructorNetwork(registry) ==
  IF registry.schema_client # NULL THEN {"close"} ELSE {}

\* get_or_create_schema_registry(text): the map after the call and whether a
\* registry was constructed.
get_or_create_schema_registry(registries, text, client) ==
  IF text \in DOMAIN registries
  THEN [registries |-> registries, created |-> FALSE]
  ELSE [registries |-> [k \in DOMAIN registries \cup {text} |->
                          IF k = text THEN MongoSchemaRegistry(text, client)
                          ELSE registries[k]],
        created    |-> TRUE]

\* cleanup_all_schema_registries().
cleanup_all_schema_registries(registries) == EmptyMap

\* A call, the global lock it holds, and the network operations it makes
\* while it holds it.
NetworkLog(op, lock, network) == [op |-> op, lock |-> lock, network |-> network]

NoNetworkLog == NetworkLog("none", "none", {})

GlobalsUnused ==
  /\ connected_pools = {}
  /\ global_schema_registries = EmptyMap
  /\ network_log = NoNetworkLog

(***************************************************************************)
(* The table open (src/src/ha_mongodb_handler.cc, src/src/mongodb_share.cc)*)
(* and the MONGODB_SHARE it fills.                                         *)
(***************************************************************************)
\* std::string::find(str): the position of the first occurrence of sub.
FindString(s, sub) ==
  IF \E i \in 0..(Len(s) - Len(sub)) : SubSeq(s, i + 1, i + Len(sub)) = sub
  THEN CHOOSE i \in 0..(Len(s) - Len(sub)) :
         /\ SubSeq(s, i + 1, i + Len(sub)) = sub
         /\ \A j \in 0..(i - 1) : SubSeq(s, j + 1, j + Len(sub)) # sub
  ELSE npos

\* The share pointer of a handler that is nullptr.
NoShare ==
  [allocated |-> FALSE, use_count |-> 0, parsed |-> FALSE, connection_string |-> <<>>,
   database_name |-> <<>>, collection_name |-> <<>>, mongo_connection_string |-> <<>>]

\* The MONGODB_SHARE get_share allocates (MY_ZEROFILL): the strings are null
\* pointers, written as empty strings.
MONGODB_SHARE == [NoShare EXCEPT !.allocated = TRUE, !.use_count = 1]

\* ha_mongodb::get_share.
get_share(sh) ==
  IF ~sh.allocated THEN MONGODB_SHARE ELSE [sh EXCEPT !.use_count = @ + 1]

\* ha_mongodb::free_share: the share pointer of the handler after it.
free_share(sh) ==
  IF sh.allocated /\ sh.use_count - 1 = 0 THEN NoShare
  ELSE IF sh.allocated THEN [sh EXCEPT !.use_count = @ - 1]
  ELSE sh

\* mongodb_parse_connection_string(connection_string, share): what it
\* returns and the share after it.
mongodb_parse_connection_string(text, sh) ==
  LET stored         == [sh EXCEPT !.connection_string = text]
      scheme_end     == FindString(text, <<":", "/", "/">>)
      path_start     == Find(text, "/", scheme_end + 3)
      whole_path     == SubstrFrom(text, path_start + 1)
      query_start    == Find(whole_path, "?", 0)
      path_part      == IF query_start # npos THEN Substr(whole_path, 0, query_start)
                        ELSE whole_path
      collection_sep == Find(path_part, "/", 0)
      database       == Substr(path_part, 0, collection_sep)
      collection_nm  == SubstrFrom(path_part, collection_sep + 1)
      mongo_uri      == Substr(text, 0, path_start + 1) \o database
                        \o (IF query_start # npos
                            THEN <<"?">> \o SubstrFrom(text, Find(text, "?", 0) + 1)
                            ELSE <<>>)
  IN  IF scheme_end = npos THEN [rc |-> 1, share |-> stored]
      ELSE IF path_start = npos THEN [rc |-> 1, share |-> stored]
      ELSE IF collection_sep = npos THEN [rc |-> 1, share |-> stored]
      ELSE [rc |-> 0,
            share |-> [stored EXCEPT !.database_name = database,
                                     !.collection_name = collection_nm,
                                     !.mongo_connection_string = mongo_uri]]

\* mongodb_parse_connection_string returning failure for every string.
mongodb_parse_connection_string_failing(text, sh) ==
  [rc |-> 1, share |-> [sh EXCEPT !.connection_string = text]]

\* ha_mongodb::open: what it returns and the share pointer after it.
open(text, sh) ==
  LET got    == get_share(sh)
      parsed == mongodb_parse_connection_string(text, got)
  IN  IF ~got.parsed
      THEN IF parsed.rc # 0
           THEN [rc |-> "HA_ERR_INTERNAL_ERROR", share |-> free_share(parsed.share)]
           ELSE [rc |-> "0", share |-> [parsed.share EXCEPT !.parsed = TRUE]]
      ELSE [rc |-> "0", share |-> got]

\* The opens of one handler the host makes without a close.
MaxUseCount == 2

OpenCall(op, rc) == [op |-> op, rc |-> rc]

NoOpenCall == OpenCall("none", "0")

OpenUnused ==
  /\ table_connect_string = <<>>
  /\ share = NoShare
  /\ open_call = NoOpenCall

(***************************************************************************)
(* The inputs of the schema registry and of the type inference.            *)
(***************************************************************************)
\* The collections inferred, and the table names looked up and invalidated:
\* those of the collections inferred and one never inferred.
Databases == {"shop"}
Collections == {"users"}
TableKeys == {table_key(d, c) : d \in Databases, c \in Collections \cup {"orders"}}

\* The client mongoc_client_new_from_uri returns to the constructor.
SchemaClient == 1

Element(key, value_type) == [key |-> key, value_type |-> value_type]

\* The keys and the value types of the sampled documents.
SampleKeys == {<<"n">>, <<"9", "n">>}
SampleTypes == {"BSON_TYPE_INT32", "BSON_TYPE_INT64", "BSON_TYPE_DOUBLE",
                "BSON_TYPE_UTF8", "BSON_TYPE_BOOL"}
SampleDocuments == {<<Element(k, ty)>> : k \in SampleKeys, ty \in SampleTypes}

\* All sequences over S of length lo to hi.
SeqsOf(S, lo, hi) == UNION {[1..n -> S] : n \in lo..hi}

\* What sample_collection_documents can give the registry: an error, no
\* document, or documents of the collection as it is at that time.
RegistryDocA == <<Element(<<"n">>, "BSON_TYPE_INT32")>>
\* Keys of the second document: the empty key, a key of 64 characters that
\* starts with a digit, and a key of 64 letters.
EmptyKey == <<>>
DigitKey64 == [i \in 1..64 |-> IF i = 1 THEN "9" ELSE "k"]
LetterKey64 == [i \in 1..64 |-> "k"]
RegistryDocB ==
  <<Element(<<"n">>, "BSON_TYPE_DOUBLE"),
    Element(<<"a", ".", "b">>, "BSON_TYPE_UTF8"),
    Element(<<"a", "_", "b">>, "BSON_TYPE_INT32"),
    Element(<<"a", "-", "b">>, "BSON_TYPE_BOOL"),
    Element(EmptyKey, "BSON_TYPE_INT32"),
    Element(DigitKey64, "BSON_TYPE_INT32"),
    Element(LetterKey64, "BSON_TYPE_INT32")>>
SamplingOutcomes ==
  {[has_error |-> TRUE, samples |-> <<>>],
   [has_error |-> TRUE, samples |-> <<RegistryDocB>>],
   [has_error |-> FALSE, samples |-> <<>>],
   [has_error |-> FALSE, samples |-> <<RegistryDocA>>],
   [has_error |-> FALSE, samples |-> <<RegistryDocA, RegistryDocB>>]}

(***************************************************************************)
(* The state of a subsystem that a specification does not exercise.        *)
(***************************************************************************)
NoInference == [t \in {} |-> NULL]

NoCall == [op |-> "none", table_name |-> "", result |-> FALSE, mappings |-> <<>>]

RegistryCall(op, table_name, result, mappings) ==
  [op |-> op, table_name |-> table_name, result |-> result, mappings |-> mappings]

RegistryUnused ==
  /\ schema_cache = EmptyMap
  /\ cache_ttl = MONGODB_DEFAULT_SCHEMA_CACHE_TTL_SECONDS
  /\ schema_client = NULL
  /\ infer_pc = [t \in Threads |-> "idle"]
  /\ infer_key = [t \in Threads |-> ""]
  /\ infer_entry = [t \in Threads |-> MongoSchemaCache]
  /\ served = NoInference
  /\ invalidated = {}
  /\ registry_call = NoCall

AnalyzeUnused ==
  /\ samples = <<>>
  /\ inferred_fields = EmptyMap
  /\ doc_index = 1

PoolUnused ==
  /\ connections = <<>>
  /\ max_connections = MaxPool
  /\ idle_timeout = MONGODB_DEFAULT_IDLE_TIMEOUT_SECONDS
  /\ next_connection_id = 1
  /\ active_connections = 0
  /\ total_connections_created = 0
  /\ holding = [t \in Threads |-> NULL]
  /\ stale = [t \in Threads |-> NULL]
  /\ disciplined = TRUE
  /\ last_call = [op |-> "none", client |-> NULL]

(***************************************************************************)
(* The state after construction (and configuration by set_max_connections  *)
(* and set_idle_timeout before the pool is used).                          *)
(***************************************************************************)
InitPool ==
  /\ connections = <<>>
  /\ max_connections \in 1..MaxPool
  /\ idle_timeout = MONGODB_DEFAULT_IDLE_TIMEOUT_SECONDS
  /\ next_connection_id = 1
  /\ active_connections = 0
  /\ total_connections_created = 0

InitCallers ==
  /\ holding = [t \in Threads |-> NULL]
  /\ stale = [t \in Threads |-> NULL]
  /\ disciplined = TRUE
  /\ last_call = [op |-> "none", client |-> NULL]

Init ==
  /\ InitPool
  /\ InitCallers
  /\ now = 0
  /\ RegistryUnused
  /\ AnalyzeUnused
  /\ ScanUnused
  /\ UriUnused
  /\ ConvertUnused
  /\ PoolsUnused
  /\ HandlersUnused
  /\ LifecycleUnused
  /\ LockingUnused
  /\ GlobalsUnused
  /\ OpenUnused

(***************************************************************************)
(* Actions of the pool specification.                                      *)
(***************************************************************************)
\* The clock advances.
Tick ==
  /\ now < MaxTicks * ClockStep
  /\ now' = now + ClockStep
  /\ last_call' = [op |-> "none", client |-> NULL]
  /\ UNCHANGED <<poolVars, holding, stale, disciplined, notPoolVars>>

\* The lowest address that is no client of the pool.
FreeAddress(conns) ==
  CHOOSE c \in Clients \ ClientsOf(conns) : \A d \in Clients \ ClientsOf(conns) : c <= d

\* What create_new_connection can return: NULL, or the address of a new client,
\* which differs from every client that is alive (those of the entries kept);
\* the allocator hands out the lowest free address, so the address of a
\* destroyed client is used again.
NewClientOutcomes(conns, t, timeout) ==
  {NULL, FreeAddress(cleanup_idle_connections(conns, t, timeout))}

\* Thread t, holding no handle, calls acquire_connection.
Acquire(t) ==
  /\ holding[t] = NULL
  /\ \E new_client \in NewClientOutcomes(connections, now, idle_timeout) :
       LET r == acquire_connection(connections, max_connections, active_connections,
                                   next_connection_id, total_connections_created,
                                   now, idle_timeout, new_client)
       IN  /\ connections' = r.conns
           /\ active_connections' = r.active
           /\ next_connection_id' = r.next_id
           /\ total_connections_created' = r.total
           /\ holding' = [holding EXCEPT ![t] = r.result]
           /\ last_call' = [op |-> "acquire", client |-> r.result]
  /\ stale' = [stale EXCEPT ![t] = NULL]
  /\ UNCHANGED <<max_connections, idle_timeout, disciplined, now, notPoolVars>>

\* Thread t releases the handle it holds.
Release(t) ==
  /\ holding[t] # NULL
  /\ LET r == release_connection(connections, active_connections, now, holding[t])
     IN  /\ connections' = r.conns
         /\ active_connections' = r.active
  /\ holding' = [holding EXCEPT ![t] = NULL]
  /\ stale' = [stale EXCEPT ![t] = holding[t]]
  /\ last_call' = [op |-> "release", client |-> holding[t]]
  /\ UNCHANGED <<max_connections, idle_timeout, next_connection_id,
                 total_connections_created, disciplined, now, notPoolVars>>

\* The pointers other than its current handle that thread t can pass to
\* release_connection: null, the handle it released last (a double release), or
\* a pointer that is no client of the pool (never acquired from it, or the
\* client of an entry reaped since).
NotHeldPointers(t) ==
  {NULL, stale[t], FreeAddress(connections)} \ {holding[t]}

\* Thread t releases a pointer it does not hold.
ReleaseNotHeld(t) ==
  /\ \E client \in NotHeldPointers(t) :
       /\ LET r == release_connection(connections, active_connections, now, client)
          IN  /\ connections' = r.conns
              /\ active_connections' = r.active
       /\ last_call' = [op |-> "release", client |-> client]
  /\ disciplined' = FALSE
  /\ UNCHANGED <<max_connections, idle_timeout, next_connection_id,
                 total_connections_created, holding, stale, now, notPoolVars>>

Next ==
  \/ Tick
  \/ \E t \in Threads : Acquire(t)
  \/ \E t \in Threads : Release(t)
  \/ \E t \in Threads : ReleaseNotHeld(t)

Spec == Init /\ [][Next]_vars

(***************************************************************************)
(* Claims about the connection pool                                        *)
(***************************************************************************)

\* C1 (pool exclusivity): as long as every caller releases only a handle it
\* currently holds, no two outstanding acquire results are the same handle.
C1_PoolExclusivity ==
  disciplined =>
    \A t1, t2 \in Threads :
      (t1 # t2 /\ holding[t1] # NULL) => holding[t1] # holding[t2]

\* Every thread holds a handle, the last of them handed out by an acquire
\* that reused an entry released before (no client was created at that time),
\* and no caller broke the release discipline.
C1_Witness ==
  /\ disciplined
  /\ \A t \in Threads : holding[t] # NULL
  /\ last_call.op = "acquire"
  /\ total_connections_created = NumThreads
  /\ \E i \in 1..Len(connections) :
       /\ connections[i].client = last_call.client
       /\ connections[i].last_used = now
       /\ connections[i].connection_id < total_connections_created

\* C2 (pool bound): the busy handles and the entries never exceed
\* max_connections, and an acquire made when the pool holds max_connections
\* entries, all in use, returns no handle and creates nothing.
C2_PoolBound ==
  /\ [](BusyCount(connections) <= max_connections
        /\ Len(connections) <= max_connections)
  /\ [][(/\ last_call'.op = "acquire"
         /\ Len(connections) = max_connections
         /\ BusyCount(connections) = Len(connections))
        => (last_call'.client = NULL /\ UNCHANGED poolVars)]_vars

\* An acquire has just returned no handle from a full pool whose entries are
\* all in use.
C2_Witness ==
  /\ last_call = [op |-> "acquire", client |-> NULL]
  /\ Len(connections) = max_connections
  /\ BusyCount(connections) = max_connections
  /\ \E t \in Threads : holding[t] = NULL

\* C8 (release is idempotent and tolerant): a release of a pointer that is
\* null, not the client of any entry, or the client of an idle entry changes
\* nothing of the pool; so a second release of a handle is a no-op and the
\* active count, decremented once per acquire, stays the number of busy entries.
C8_ReleaseTolerant ==
  /\ [][(last_call'.op = "release" /\ ~IsBusyEntry(connections, last_call'.client))
        => UNCHANGED poolVars]_vars
  /\ [](active_connections = BusyCount(connections))

\* The last call released, a second time, the handle of an entry that was
\* already idle: its timestamp is older than the clock (a release that acts
\* sets it to the clock) and no thread holds it.
C8_Witness ==
  /\ last_call.op = "release"
  /\ ~disciplined
  /\ \E i \in 1..Len(connections) :
       /\ connections[i].client = last_call.client
       /\ ~connections[i].in_use
       /\ connections[i].last_used < now
  /\ \A t \in Threads : holding[t] # last_call.client

\* C9 (exclusive ownership until the holder releases): the handle a thread
\* holds is the client of an entry in use, and no other thread holds it.
C9_OwnedUntilHolderReleases ==
  \A t \in Threads :
    holding[t] # NULL =>
      /\ IsBusyEntry(connections, holding[t])
      /\ \A t2 \in Threads \ {t} : holding[t2] # holding[t]

\* Whether entry e has been idle at time t for longer than timeout seconds.
IdleLongerThan(e, t, timeout) ==
  ~e.in_use /\ t - e.last_used > timeout * MillisPerSecond

\* C19 (idle reaping at acquire): the entries an acquire_connection removes
\* are exactly those not in use whose idle duration exceeds the idle
\* timeout, by however little; an entry in use is never removed, and the
\* handle of an entry idle for longer than the timeout is never returned.
C19_IdleReapingAtAcquire ==
  [][last_call'.op = "acquire" =>
       \A i \in 1..Len(connections) :
         LET e == connections[i]
             kept == \E j \in 1..Len(connections') :
                       connections'[j].connection_id = e.connection_id
         IN  /\ kept <=> ~IdleLongerThan(e, now, idle_timeout)
             /\ IdleLongerThan(e, now, idle_timeout) =>
                  ~\E j \in 1..Len(connections') :
                      /\ connections'[j].connection_id = e.connection_id
                      /\ connections'[j].client = last_call'.client]_vars

\* C20 (reuse before create): acquire_connection creates a client only when
\* no entry left by the reaping is idle and the pool is under its limit; when
\* an entry is idle it returns the handle of an idle entry, marks the entry
\* in use and sets its last_used to the time of the call, and creates
\* nothing; with max_connections = 1 and the entry in use it returns null.
C20_ReuseBeforeCreate ==
  [][last_call'.op = "acquire" =>
       LET kept == cleanup_idle_connections(connections, now, idle_timeout)
           idle == {i \in 1..Len(kept) : ~kept[i].in_use}
       IN  /\ total_connections_created' # total_connections_created =>
                /\ idle = {}
                /\ Len(kept) < max_connections
                /\ Len(connections') = Len(kept) + 1
           /\ idle # {} =>
                /\ Len(connections') = Len(kept)
                /\ \E i \in idle :
                     /\ last_call'.client = kept[i].client
                     /\ connections'[i].connection_id = kept[i].connection_id
                     /\ connections'[i].in_use
                     /\ connections'[i].last_used = now
                     /\ \A j \in 1..Len(kept) : j # i => connections'[j] = kept[j]
           /\ (max_connections = 1 /\ Len(kept) = 1 /\ idle = {}) =>
                last_call'.client = NULL]_vars

\* With max_connections = 1, the handle acquired and released earlier has
\* just been acquired again: one client was ever created, the entry is in
\* use and its last_used is the time of the call.
C20_Witness ==
  /\ last_call.op = "acquire"
  /\ last_call.client # NULL
  /\ max_connections = 1
  /\ total_connections_created = 1
  /\ Len(connections) = 1
  /\ connections[1].client = last_call.client
  /\ connections[1].in_use
  /\ connections[1].last_used = now
  /\ now > 0

(***************************************************************************)
(* The schema registry specification: one registry shared by the threads.  *)
(* infer_schema_from_collection holds cache_mutex while it looks the key   *)
(* up and while it stores the entry, and not in between, so a call is      *)
(* three steps.                                                            *)
(***************************************************************************)
InitSchema ==
  /\ schema_cache = EmptyMap
  /\ cache_ttl = MONGODB_DEFAULT_SCHEMA_CACHE_TTL_SECONDS
  /\ schema_client \in {NULL, SchemaClient}
  /\ infer_pc = [t \in Threads |-> "idle"]
  /\ infer_key = [t \in Threads |-> ""]
  /\ infer_entry = [t \in Threads |-> MongoSchemaCache]
  /\ served = NoInference
  /\ invalidated = {}
  /\ registry_call = NoCall
  /\ now = 0
  /\ PoolUnused
  /\ AnalyzeUnused
  /\ ScanUnused
  /\ UriUnused
  /\ ConvertUnused
  /\ PoolsUnused
  /\ HandlersUnused
  /\ LifecycleUnused
  /\ LockingUnused
  /\ GlobalsUnused
  /\ OpenUnused

\* The clock advances.
SchemaTick ==
  /\ now < MaxSchemaTicks * SchemaClockStep
  /\ now' = now + SchemaClockStep
  /\ registry_call' = NoCall
  /\ UNCHANGED <<schema_cache, cache_ttl, schema_client, infer_pc, infer_key,
                 infer_entry, served, invalidated, notRegistryVars>>

\* infer_schema_from_collection up to the end of the cache lookup: false with
\* no client, true on a valid cached entry, else on to the sampling.
InferLookup(t, database_name, collection_name) ==
  /\ infer_pc[t] = "idle"
  /\ LET key == table_key(database_name, collection_name)
     IN  IF schema_client = NULL
         THEN /\ registry_call' = RegistryCall("infer", key, FALSE, <<>>)
              /\ UNCHANGED <<infer_pc, infer_key, invalidated>>
         ELSE IF key \in DOMAIN schema_cache /\ is_cache_valid(schema_cache[key], now)
         THEN /\ registry_call' = RegistryCall("infer_cached", key, TRUE, <<>>)
              /\ UNCHANGED <<infer_pc, infer_key, invalidated>>
         ELSE /\ infer_pc' = [infer_pc EXCEPT ![t] = "sample"]
              /\ infer_key' = [infer_key EXCEPT ![t] = key]
              /\ registry_call' = NoCall
              /\ UNCHANGED invalidated
  /\ UNCHANGED <<schema_cache, cache_ttl, schema_client, infer_entry, served,
                 now, notRegistryVars>>

\* The sampling, the analysis and the construction of cache_entry, outside
\* the lock: false when the sampling fails or yields no document.
InferSample(t) ==
  /\ infer_pc[t] = "sample"
  /\ invalidated' = invalidated \ {infer_key[t]}
  /\ \E outcome \in SamplingOutcomes :
       IF ~sample_collection_documents(outcome) \/ outcome.samples = <<>>
       THEN /\ infer_pc' = [infer_pc EXCEPT ![t] = "idle"]
            /\ infer_key' = [infer_key EXCEPT ![t] = ""]
            /\ registry_call' = RegistryCall("infer", infer_key[t], FALSE, <<>>)
            /\ UNCHANGED infer_entry
       ELSE /\ infer_pc' = [infer_pc EXCEPT ![t] = "store"]
            /\ infer_entry' = [infer_entry EXCEPT
                                 ![t] = CacheEntry(outcome.samples, now, cache_ttl)]
            /\ registry_call' = NoCall
            /\ UNCHANGED infer_key
  /\ UNCHANGED <<schema_cache, cache_ttl, schema_client, served,
                 now, notRegistryVars>>

\* The store of cache_entry under the lock, and the return of true.
InferStore(t) ==
  /\ infer_pc[t] = "store"
  /\ schema_cache' = StoreEntry(schema_cache, infer_key[t], infer_entry[t])
  /\ served' = [k \in DOMAIN served \cup {infer_key[t]} |->
                  IF k = infer_key[t]
                  THEN [mappings |-> infer_entry[t].field_mappings,
                        at       |-> infer_entry[t].last_updated]
                  ELSE served[k]]
  /\ infer_pc' = [infer_pc EXCEPT ![t] = "idle"]
  /\ infer_key' = [infer_key EXCEPT ![t] = ""]
  /\ infer_entry' = [infer_entry EXCEPT ![t] = MongoSchemaCache]
  /\ registry_call' = RegistryCall("infer", infer_key[t], TRUE, <<>>)
  /\ UNCHANGED <<cache_ttl, schema_client, invalidated, now, notRegistryVars>>

\* A call of get_field_mappings, with an empty vector.
GetFieldMappings(table_name) ==
  /\ LET r == get_field_mappings(schema_cache, table_name, <<>>, now)
     IN  registry_call' = RegistryCall("get", table_name, r.found, r.mappings)
  /\ UNCHANGED <<schema_cache, cache_ttl, schema_client, infer_pc, infer_key,
                 infer_entry, served, invalidated, now, notRegistryVars>>

\* A call of invalidate_cache.
InvalidateCache(table_name) ==
  /\ schema_cache' = invalidate_cache(schema_cache, table_name)
  /\ served' = [k \in DOMAIN served \ {table_name} |-> served[k]]
  /\ invalidated' = IF table_name \in DOMAIN schema_cache
                    THEN invalidated \cup {table_name}
                    ELSE invalidated
  /\ registry_call' = RegistryCall("invalidate", table_name, TRUE, <<>>)
  /\ UNCHANGED <<cache_ttl, schema_client, infer_pc, infer_key, infer_entry,
                 now, notRegistryVars>>

\* A call of clear_all_cache.
ClearAllCache ==
  /\ schema_cache' = EmptyMap
  /\ served' = NoInference
  /\ invalidated' = {}
  /\ registry_call' = RegistryCall("clear", "", TRUE, <<>>)
  /\ UNCHANGED <<cache_ttl, schema_client, infer_pc, infer_key, infer_entry,
                 now, notRegistryVars>>

NextSchema ==
  \/ SchemaTick
  \/ \E t \in Threads, d \in Databases, c \in Collections : InferLookup(t, d, c)
  \/ \E t \in Threads : InferSample(t)
  \/ \E t \in Threads : InferStore(t)
  \/ \E k \in TableKeys : GetFieldMappings(k)
  \/ \E k \in TableKeys : InvalidateCache(k)
  \/ ClearAllCache

SpecSchema == InitSchema /\ [][NextSchema]_vars

\* C3 (schema TTL): for the inference stored last for a key at time T (the
\* last_updated of its entry), with no invalidate or clear_all since,
\* get_field_mappings returns exactly its mappings while the clock is before
\* T + TTL and returns false from T + TTL on.
C3_SchemaTTL ==
  \A k \in DOMAIN served :
    LET r == get_field_mappings(schema_cache, k, <<>>, now)
        expiry == served[k].at + cache_ttl * MillisPerSecond
    IN  /\ now < expiry => (r.found /\ r.mappings = served[k].mappings)
        /\ now >= expiry => ~r.found

\* get_field_mappings has just returned false for a key whose inference,
\* neither invalidated nor cleared, is exactly TTL old.
C3_Witness ==
  /\ registry_call.op = "get"
  /\ registry_call.table_name \in DOMAIN served
  /\ ~registry_call.result
  /\ now = served[registry_call.table_name].at + cache_ttl * MillisPerSecond
  /\ schema_cache[registry_call.table_name].is_valid
  /\ schema_cache[registry_call.table_name].field_mappings # <<>>

\* C17 (invalidate semantics): a key invalidate_cache has marked, with no
\* sampling for it made since, is still in the cache map, is marked invalid
\* and get_field_mappings returns false for it, so that the next
\* infer_schema_from_collection for it samples again; invalidate_cache
\* leaves the entries of the other keys as they are; after clear_all_cache
\* the map is empty.
C17_InvalidateSemantics ==
  /\ [](\A k \in invalidated :
          /\ k \in DOMAIN schema_cache
          /\ ~schema_cache[k].is_valid
          /\ ~get_field_mappings(schema_cache, k, <<>>, now).found)
  /\ [](registry_call.op = "clear" => schema_cache = EmptyMap)
  /\ [][registry_call'.op = "invalidate" =>
          /\ DOMAIN schema_cache' = DOMAIN schema_cache
          /\ \A k \in DOMAIN schema_cache \ {registry_call'.table_name} :
               schema_cache'[k] = schema_cache[k]]_vars

\* Whether the cache holds for key k an entry that is valid and not expired.
FreshInCache(k) ==
  /\ k \in DOMAIN schema_cache
  /\ schema_cache[k].is_valid
  /\ now < schema_cache[k].expires_at

\* C24 (cache hit skips MongoDB): a call of infer_schema_from_collection for
\* a key whose entry is valid and not expired returns true from the cache
\* check: it does not go on to the sampling and it leaves the cache as it
\* is, so the mappings, the creation time and the expiry of the entry are
\* unchanged.
C24_CacheHitSkipsSampling ==
  [][\A t \in Threads :
       /\ (infer_pc[t] = "idle" /\ infer_pc'[t] = "sample") =>
            ~FreshInCache(infer_key'[t])
       /\ (/\ registry_call'.op \in {"infer", "infer_cached"}
           /\ infer_pc' = infer_pc
           /\ FreshInCache(registry_call'.table_name)) =>
            /\ registry_call'.op = "infer_cached"
            /\ registry_call'.result
            /\ schema_cache' = schema_cache]_vars

\* infer_schema_from_collection has just returned true from the cache check,
\* for an entry made one clock step earlier.
C24_Witness ==
  /\ registry_call.op = "infer_cached"
  /\ registry_call.result
  /\ FreshInCache(registry_call.table_name)
  /\ schema_cache[registry_call.table_name].last_updated < now

\* The entries an inference can write at time t: those built from what a
\* sampling without error gave, one document at least.
WritableEntries(t) ==
  {CacheEntry(outcome.samples, t, cache_ttl) :
     outcome \in {o \in SamplingOutcomes : ~o.has_error /\ o.samples # <<>>}}

\* C25 (failed inference preserves the cache): a sampling that has an error
\* or gives no document ends the call with false, and a call that returns
\* false leaves the whole cache as it is; only a sampling without error that
\* gave a document goes on to build an entry.
C25_FailedInferencePreservesCache ==
  [][/\ (registry_call'.op = "infer" /\ ~registry_call'.result) =>
          schema_cache' = schema_cache
     /\ \A t \in Threads :
          /\ (infer_pc[t] = "sample" /\ infer_pc'[t] = "idle") =>
               /\ registry_call' = RegistryCall("infer", infer_key[t], FALSE, <<>>)
               /\ schema_cache' = schema_cache
          /\ (infer_pc[t] = "sample" /\ infer_pc'[t] = "store") =>
               infer_entry'[t] \in WritableEntries(now)]_vars

\* A sampling has just failed for a key that has an entry in the cache.
C25_Witness ==
  /\ registry_call.op = "infer"
  /\ ~registry_call.result
  /\ registry_call.table_name \in DOMAIN schema_cache
  /\ schema_cache[registry_call.table_name].field_mappings # <<>>

\* The mapping sets inferences build.
CompleteMappingSets == {e.field_mappings : e \in WritableEntries(0)}

SqlIdentifierGrammar(name) ==
  /\ Len(name) \in 1..64
  /\ name[1] \in LowerLetters \cup UpperLetters \cup {"_"}
  /\ \A i \in 1..Len(name) : name[i] \in LowerLetters \cup UpperLetters \cup Digits \cup {"_"}

\* The mapping sets of the cache and of the entries about to be written.
InferredMappingSets ==
  {schema_cache[k].field_mappings : k \in DOMAIN schema_cache}
    \cup {infer_entry[t].field_mappings : t \in {u \in Threads : infer_pc[u] = "store"}}

\* C29 (cached mappings are well-formed): in every entry inference writes,
\* each sql_name satisfies the SQL identifier grammar, the sql_names of the
\* entry are pairwise distinct, every mapping is nullable, and a mapping
\* comes only from a document key whose normalized name is an identifier:
\* the empty key and the key that normalization makes 65 characters long
\* have none.
C29_MappingsWellFormed ==
  \A fm \in InferredMappingSets :
    /\ \A i \in 1..Len(fm) :
         /\ SqlIdentifierGrammar(fm[i].sql_name)
         /\ fm[i].is_nullable
         /\ fm[i].mongo_path \notin {EmptyKey, DigitKey64}
         /\ Len(fm[i].mongo_path) = Len(fm[i].sql_name) \/ fm[i].mongo_path[1] \in Digits
    /\ \A i, j \in 1..Len(fm) : i # j => fm[i].sql_name # fm[j].sql_name

\* An inference has written an entry from a document with three keys that
\* normalize to a_b, the empty key, the key normalization makes too long
\* and a key of 64 letters: a_b has one mapping, the 64 letters have one.
C29_Witness ==
  /\ registry_call.op = "infer"
  /\ registry_call.result
  /\ LET fm == schema_cache[registry_call.table_name].field_mappings
     IN  /\ Cardinality({i \in 1..Len(fm) : fm[i].sql_name = <<"a", "_", "b">>}) = 1
         /\ \E i \in 1..Len(fm) : fm[i].sql_name = LetterKey64
         /\ Len(fm) = 3

\* C27 (invalidate is not undone by an in-flight inference): once every
\* inference has finished, get_field_mappings returns no mappings for a key
\* that invalidate_cache has marked and that has not been sampled since.
C27_InvalidateNotUndone ==
  (\A t \in Threads : infer_pc[t] = "idle") =>
    \A k \in invalidated :
      ~get_field_mappings(schema_cache, k, <<>>, now).found

\* The threads that are using schema_client: those between the cache check
\* that missed and the return of infer_schema_from_collection.
ClientUsers == {t \in Threads : infer_pc[t] \in {"sample", "store"}}

\* C28 (single-threaded use of the registry's client): at most one thread at
\* a time is using schema_client, and no two inferences for the same key
\* have both sampled the collection.
C28_OneClientUser ==
  /\ Cardinality(ClientUsers) <= 1
  /\ \A t1, t2 \in Threads :
       (t1 # t2 /\ infer_pc[t1] = "store" /\ infer_pc[t2] = "store") =>
         infer_key[t1] # infer_key[t2]

(***************************************************************************)
(* The type inference specification: the loop of                           *)
(* infer_schema_from_collection over a sample, one document per step.      *)
(***************************************************************************)
InitAnalyze ==
  /\ samples \in SeqsOf(SampleDocuments, 1, MaxSamples)
  /\ inferred_fields = EmptyMap
  /\ doc_index = 1
  /\ now = 0
  /\ PoolUnused
  /\ RegistryUnused
  /\ ScanUnused
  /\ UriUnused
  /\ ConvertUnused
  /\ PoolsUnused
  /\ HandlersUnused
  /\ LifecycleUnused
  /\ LockingUnused
  /\ GlobalsUnused
  /\ OpenUnused

\* analyze_document_structure(samples[doc_index], inferred_fields).
AnalyzeDocument ==
  /\ doc_index <= Len(samples)
  /\ inferred_fields' = analyze_document_structure(samples[doc_index], inferred_fields)
  /\ doc_index' = doc_index + 1
  /\ UNCHANGED <<samples, notAnalyzeVars>>

NextAnalyze == AnalyzeDocument

SpecAnalyze == InitAnalyze /\ [][NextAnalyze]_vars

\* The SQL type of every field of a std::map of mappings.
SqlTypes(fields) == [n \in DOMAIN fields |-> fields[n].sql_type]

\* The sequence docs in the order p, a permutation of its indices.
Reordered(docs, p) == [i \in 1..Len(docs) |-> docs[p[i]]]

\* C4 (type widening is commutative in outcome): once every sample is
\* analyzed, the SQL type of each field is the one every other order of the
\* same documents gives.
C4_WideningOrderIndependent ==
  doc_index > Len(samples) =>
    \A p \in Permutations(1..Len(samples)) :
      SqlTypes(AnalyzeSamples(Reordered(samples, p), EmptyMap)) = SqlTypes(inferred_fields)

(***************************************************************************)
(* The scan specification: one handler, the conditions the server pushes   *)
(* and the scans it runs. The server pushes a condition before it opens    *)
(* the scan that is to use it.                                             *)
(***************************************************************************)
InitScan ==
  /\ ScanUnused
  /\ UriUnused
  /\ ConvertUnused
  /\ LifecycleUnused
  /\ LockingUnused
  /\ GlobalsUnused
  /\ OpenUnused
  /\ now = 0
  /\ PoolUnused
  /\ RegistryUnused
  /\ AnalyzeUnused
  /\ PoolsUnused
  /\ HandlersUnused

HandlerState ==
  [pushed_condition |-> pushed_condition, cursor |-> cursor,
   current_doc |-> current_doc, scan_position |-> scan_position,
   collection |-> collection, ref |-> ref, overwritten |-> overwritten]

\* The handler's fields become h.
SetHandlerState(h) ==
  /\ pushed_condition' = h.pushed_condition
  /\ cursor' = h.cursor
  /\ current_doc' = h.current_doc
  /\ scan_position' = h.scan_position
  /\ collection' = h.collection
  /\ ref' = h.ref
  /\ overwritten' = h.overwritten

Returns(op, outcome) ==
  /\ SetHandlerState(outcome.h)
  /\ handler_call' = [HandlerCall(op, outcome.rc, outcome.doc) EXCEPT
                        !.error = outcome.h.cursor.error]

\* A call that is not part of a scan by position drops the stored position's
\* document.
DropsPosition == ref_doc' = 0

CondPush(cond) ==
  /\ cursor.null
  /\ LET r == cond_push(HandlerState, cond)
     IN  /\ SetHandlerState(r.h)
         /\ handler_call' = [HandlerCall("cond_push", "0", 0) EXCEPT
                               !.cond = cond, !.returned = r.returned,
                               !.match_filter = r.match_filter]
         /\ accepted' = IF cond # NoCondition /\ r.returned = NoCondition
                        THEN [active |-> TRUE, cond |-> cond,
                              filter |-> r.match_filter.elements]
                        ELSE accepted
  /\ DropsPosition
  /\ UNCHANGED notScanVars

CondPop ==
  /\ SetHandlerState(cond_pop(HandlerState))
  /\ handler_call' = HandlerCall("cond_pop", "0", 0)
  /\ accepted' = NoAccepted
  /\ DropsPosition
  /\ UNCHANGED notScanVars

RndInit(scan) ==
  /\ \E connected \in BOOLEAN :
       Returns("rnd_init", rnd_init(HandlerState, scan, connected))
  /\ DropsPosition
  /\ UNCHANGED <<accepted, notScanVars>>

RndNext ==
  /\ scan_position < MaxScanPosition
  /\ Returns("rnd_next", rnd_next(HandlerState))
  /\ UNCHANGED <<accepted, ref_doc, notScanVars>>

RndEnd ==
  /\ Returns("rnd_end", rnd_end(HandlerState))
  /\ UNCHANGED <<accepted, ref_doc, notScanVars>>

\* The server calls position() right after a row was read.
Position ==
  /\ handler_call.op = "rnd_next"
  /\ handler_call.rc = "0"
  /\ SetHandlerState(position(HandlerState))
  /\ ref_doc' = handler_call.doc
  /\ handler_call' = [HandlerCall("position", "0", handler_call.doc) EXCEPT
                        !.pos = scan_position - 1]
  /\ UNCHANGED <<accepted, notScanVars>>

RndPos(target_position) ==
  /\ scan_position < MaxScanPosition
  /\ LET outcome == rnd_pos(HandlerState, target_position)
     IN  /\ SetHandlerState(outcome.h)
         /\ handler_call' = [HandlerCall("rnd_pos", outcome.rc, outcome.doc) EXCEPT
                               !.pos = target_position,
                               !.error = outcome.h.cursor.error]
  /\ UNCHANGED <<accepted, ref_doc, notScanVars>>

\* read_range_first passes collection to the driver: the handler is connected.
ReadRangeFirst ==
  /\ collection
  /\ Returns("read_range_first", read_range_first(HandlerState))
  /\ DropsPosition
  /\ UNCHANGED <<accepted, notScanVars>>

ReadRangeNext ==
  /\ Returns("read_range_next", read_range_next(HandlerState))
  /\ DropsPosition
  /\ UNCHANGED <<accepted, notScanVars>>

IndexReadMap ==
  /\ \E connected \in BOOLEAN :
       Returns("index_read_map", index_read_map(HandlerState, connected))
  /\ UNCHANGED <<accepted, ref_doc, notScanVars>>

IndexNext ==
  /\ Returns("index_next", index_next(HandlerState))
  /\ UNCHANGED <<accepted, ref_doc, notScanVars>>

IndexEnd ==
  /\ Returns("index_end", index_end(HandlerState))
  /\ DropsPosition
  /\ UNCHANGED <<accepted, notScanVars>>

ScanClose ==
  /\ Returns("close", close(HandlerState))
  /\ DropsPosition
  /\ UNCHANGED <<accepted, notScanVars>>

\* The driver's cursor fails: every later mongoc_cursor_next on it returns
\* false and mongoc_cursor_error reports the message.
CursorFails(message) ==
  /\ ~cursor.null
  /\ cursor.error = NoError
  /\ cursor' = [cursor EXCEPT !.error = message]
  /\ UNCHANGED <<pushed_condition, current_doc, scan_position, collection, accepted,
                 ref, ref_doc, overwritten, handler_call, notScanVars>>

NextScan ==
  \/ \E cond \in Conditions : CondPush(cond)
  \/ CondPop
  \/ \E scan \in BOOLEAN : RndInit(scan)
  \/ RndNext
  \/ RndEnd
  \/ Position
  \/ \E target_position \in 0..(Len(CollectionDocuments) - 1) : RndPos(target_position)
  \/ ReadRangeFirst
  \/ ReadRangeNext
  \/ IndexReadMap
  \/ IndexNext
  \/ IndexEnd
  \/ ScanClose
  \/ \E message \in ErrorMessages : CursorFails(message)

SpecScan == InitScan /\ [][NextScan]_vars

\* C5 (translator fallback safety): a cond_push of a condition with a clause
\* the translator does not implement returns the condition to the server
\* and builds no filter.
C5_TranslatorFallbackSafe ==
  (/\ handler_call.op = "cond_push"
   /\ handler_call.cond # NoCondition
   /\ \E c \in SubClauses(handler_call.cond) : ~ClauseImplemented(c))
  => (handler_call.returned = handler_call.cond /\ handler_call.match_filter.null)

\* C6 (the pushed filter reaches the scan): while a condition the handler
\* took over is not popped, every cursor is opened with the filter stored for
\* it, and every document a scan call returns matches that filter.
C6_PushedFilterReachesScan ==
  accepted.active =>
    /\ ~cursor.null => cursor.query = accepted.filter
    /\ (handler_call.op \in {"rnd_next", "rnd_pos"} /\ handler_call.rc = "0")
         => Matches(accepted.filter, CollectionDocuments[handler_call.doc])

(***************************************************************************)
(* The URI specification: a connection string is parsed, the result is     *)
(* rendered by to_connection_string and the rendered string is parsed.     *)
(***************************************************************************)
InitUri ==
  /\ connection_string \in ConnectionStrings
  /\ uri_stage = "given"
  /\ parsed_uri = MongoURI
  /\ rendered = <<>>
  /\ reparsed_uri = MongoURI
  /\ safe_string = <<>>
  /\ now = 0
  /\ PoolUnused
  /\ RegistryUnused
  /\ AnalyzeUnused
  /\ ScanUnused
  /\ ConvertUnused
  /\ PoolsUnused
  /\ HandlersUnused
  /\ LifecycleUnused
  /\ LockingUnused
  /\ GlobalsUnused
  /\ OpenUnused

\* MongoURIParser::parse(connection_string).
Parse ==
  /\ uri_stage = "given"
  /\ parsed_uri' = parse(connection_string)
  /\ uri_stage' = "parsed"
  /\ UNCHANGED <<connection_string, rendered, reparsed_uri, safe_string, notUriVars>>

\* parsed_uri.to_connection_string().
ToConnectionString ==
  /\ uri_stage = "parsed"
  /\ rendered' = to_connection_string(parsed_uri)
  /\ uri_stage' = "rendered"
  /\ UNCHANGED <<connection_string, parsed_uri, reparsed_uri, safe_string, notUriVars>>

\* MongoURIParser::parse(rendered).
Reparse ==
  /\ uri_stage = "rendered"
  /\ reparsed_uri' = parse(rendered)
  /\ uri_stage' = "reparsed"
  /\ UNCHANGED <<connection_string, parsed_uri, rendered, safe_string, notUriVars>>

\* parsed_uri.to_safe_string(), for a log line.
ToSafeString ==
  /\ uri_stage = "parsed"
  /\ safe_string' = to_safe_string(parsed_uri)
  /\ uri_stage' = "logged"
  /\ UNCHANGED <<connection_string, parsed_uri, rendered, reparsed_uri, notUriVars>>

NextUri == Parse \/ ToConnectionString \/ Reparse \/ ToSafeString

SpecUri == InitUri /\ [][NextUri]_vars

\* The option set of a parsed URI.
OptionSet(u) ==
  [auth_source |-> u.auth_source, replica_set |-> u.replica_set, ssl |-> u.ssl,
   connect_timeout_ms |-> u.connect_timeout_ms,
   socket_timeout_ms |-> u.socket_timeout_ms, options |-> u.options]

\* C7 (URI round trip): for a connection string parse accepts, the parse of
\* its to_connection_string is valid and has the same hosts, the same
\* database and the same option set.
C7_UriRoundTrip ==
  (uri_stage = "reparsed" /\ parsed_uri.is_valid) =>
    /\ reparsed_uri.is_valid
    /\ reparsed_uri.hosts = parsed_uri.hosts
    /\ reparsed_uri.database = parsed_uri.database
    /\ OptionSet(reparsed_uri) = OptionSet(parsed_uri)

\* The parts of a connection string between the protocol and the options
\* that slashes separate: the hosts, the database and the collection.
UriSegments(text) ==
  LET question_pos == Find(text, "?", 0)
      before == IF question_pos # npos THEN Substr(text, 0, question_pos) ELSE text
      colon_pos == Find(before, ":", 0)
  IN  IF colon_pos = npos THEN <<>>
      ELSE split_string(SubstrFrom(before, colon_pos + 1), "/")

\* C14 (validity post-conditions): a result of parse with is_valid has a
\* host, every host of it has a name of the hostname grammar and a port in
\* 1..65535, and its database and collection names are valid and not
\* empty; a connection string without hosts, database or collection is
\* reported invalid.
C14_ValidityPostconditions ==
  uri_stage # "given" =>
    /\ parsed_uri.is_valid =>
         /\ Len(parsed_uri.hosts) >= 1
         /\ \A i \in 1..Len(parsed_uri.hosts) :
              /\ validate_hostname(parsed_uri.hosts[i].host)
              /\ parsed_uri.hosts[i].port \in 1..65535
         /\ parsed_uri.database # <<>>
         /\ validate_database_name(parsed_uri.database)
         /\ parsed_uri.collection # <<>>
         /\ validate_collection_name(parsed_uri.collection)
    /\ Len(UriSegments(connection_string)) < 3 => ~parsed_uri.is_valid

\* A connection string with two hosts, a database and a collection has been
\* found valid, and one with the port 0 invalid.
C14_Witness ==
  /\ uri_stage = "parsed"
  /\ parsed_uri.is_valid
  /\ Len(parsed_uri.hosts) = 2
  /\ Len(UriSegments(connection_string)) = 3

\* The passwords a valid URI is given in place of its own.
OtherPasswords == {<<"q">>, <<"p", "@", "w">>, <<"s", "e", "c", "r", "e", "t">>}

\* C15 (password masking): the safe string of a valid URI with a password is
\* the safe string of the same URI with any other password, and it holds
\* the mask *** where the connection string holds the password.
C15_PasswordMasked ==
  (uri_stage = "logged" /\ parsed_uri.is_valid /\ parsed_uri.password # <<>>) =>
    /\ \A other \in OtherPasswords :
         to_safe_string([parsed_uri EXCEPT !.password = other]) = safe_string
    /\ parsed_uri.username # <<>> =>
         LET start == IF parsed_uri.is_srv THEN 14 ELSE 10
         IN  Substr(safe_string, start, Len(parsed_uri.username) + 5)
               = parsed_uri.username \o <<":", "*", "*", "*", "@">>

\* The safe string of a valid URI with a user name and a password was made.
C15_Witness ==
  /\ uri_stage = "logged"
  /\ parsed_uri.is_valid
  /\ parsed_uri.username # <<>>
  /\ parsed_uri.password # <<>>
  /\ safe_string # <<>>

(***************************************************************************)
(* The conversion specification: the rows a handler fetches are converted  *)
(* one after the other into the same record buffer.                        *)
(***************************************************************************)
InitConvert ==
  /\ table_fields \in TableFields
  /\ row = [i \in DOMAIN table_fields |-> RowField(TRUE, Uninitialized, FALSE)]
  /\ convert_call = NoConversion
  /\ rows_converted = 0
  /\ now = 0
  /\ PoolUnused
  /\ RegistryUnused
  /\ AnalyzeUnused
  /\ ScanUnused
  /\ UriUnused
  /\ PoolsUnused
  /\ HandlersUnused
  /\ LifecycleUnused
  /\ LockingUnused
  /\ GlobalsUnused
  /\ OpenUnused

\* convert_document_to_row(doc, buf).
ConvertDocumentToRow(doc, buf, relaxed_json, canonical_json) ==
  LET converted == convert_document_to_row(doc, buf, row, table_fields,
                                           relaxed_json, canonical_json)
  IN  /\ rows_converted < MaxRows
      /\ rows_converted' = rows_converted + 1
      /\ row' = converted.fields
      /\ convert_call' = [op |-> "convert_document_to_row", doc |-> doc, buf |-> buf,
                          rc |-> converted.rc]
      /\ UNCHANGED <<table_fields, notConvertVars>>

NextConvert ==
  \E doc \in RowDocuments, buf \in BOOLEAN, relaxed_json \in BOOLEAN,
     canonical_json \in BOOLEAN :
    ConvertDocumentToRow(doc, buf, relaxed_json, canonical_json)

SpecConvert == InitConvert /\ [][NextConvert]_vars

\* C10 (conversion completeness): after convert_document_to_row has returned
\* success for a document, every Field of the row is flagged NULL or is
\* flagged not-NULL with a value stored for it by the conversion.
C10_ConversionComplete ==
  (convert_call.op = "convert_document_to_row" /\ convert_call.rc = 0) =>
    \A i \in DOMAIN row : row[i].is_null \/ row[i].stored

\* C11 (missing identifier is a failure): when the table declares the _id
\* Field and the document converted has no _id element,
\* convert_document_to_row does not return success.
C11_MissingIdFails ==
  (/\ convert_call.op = "convert_document_to_row"
   /\ ~convert_call.doc.null
   /\ \E i \in DOMAIN table_fields : table_fields[i] = "_id"
   /\ bson_iter_find(convert_call.doc, "_id") = 0)
    => convert_call.rc # 0

(***************************************************************************)
(* The specification of the pools of the process. Every call holds         *)
(* global_pool_mutex from its first statement to its return, so the calls  *)
(* of concurrent threads are steps one after the other.                    *)
(***************************************************************************)
InitPools ==
  /\ PoolsUnused
  /\ LifecycleUnused
  /\ LockingUnused
  /\ GlobalsUnused
  /\ OpenUnused
  /\ now = 0
  /\ PoolUnused
  /\ RegistryUnused
  /\ AnalyzeUnused
  /\ ScanUnused
  /\ UriUnused
  /\ ConvertUnused
  /\ HandlersUnused

\* get_or_create_connection_pool(text), by any thread.
GetOrCreateConnectionPool(text) ==
  LET got == get_or_create_connection_pool(global_connection_pools, text,
                                           pools_created + 1)
  IN  /\ pools_created < MaxPoolsCreated
      /\ global_connection_pools' = got.pools
      /\ pools_created' = IF got.created THEN pools_created + 1 ELSE pools_created
      /\ pools_call' = [op |-> "get_or_create_connection_pool", text |-> text,
                        instance |-> got.pool.instance, created |-> got.created]
      /\ UNCHANGED notPoolsVars

\* cleanup_all_connection_pools().
CleanupAllConnectionPools ==
  /\ global_connection_pools' = cleanup_all_connection_pools(global_connection_pools)
  /\ pools_call' = [NoPoolsCall EXCEPT !.op = "cleanup_all_connection_pools"]
  /\ UNCHANGED <<pools_created, notPoolsVars>>

NextPools ==
  \/ \E text \in TableConnectionStrings : GetOrCreateConnectionPool(text)
  \/ CleanupAllConnectionPools

SpecPools == InitPools /\ [][NextPools]_vars

\* C12 (pool sharing by normalized target): the pools of two raw connection
\* strings with the same driver-facing connection string are one and the
\* same object, and a call constructs a pool only for a key that has none
\* and returns the pool of its key.
C12_PoolSharedByTarget ==
  /\ \A a, b \in DOMAIN global_connection_pools :
       (/\ ParsedTableStrings[a].is_valid
        /\ ParsedTableStrings[b].is_valid
        /\ DriverStrings[a] = DriverStrings[b])
         => global_connection_pools[a].instance = global_connection_pools[b].instance
  /\ pools_call.op = "get_or_create_connection_pool"
       => /\ pools_call.text \in DOMAIN global_connection_pools
          /\ global_connection_pools[pools_call.text].instance = pools_call.instance
  /\ \A a, b \in DOMAIN global_connection_pools :
       global_connection_pools[a].instance = global_connection_pools[b].instance
         => global_connection_pools[a].base_connection_string
              = global_connection_pools[b].base_connection_string

(***************************************************************************)
(* The specification of the handlers of one target: each is opened, reads  *)
(* data and is closed.                                                     *)
(***************************************************************************)
InitHandlers ==
  /\ handler_open = [h \in Handlers |-> FALSE]
  /\ handler_client = [h \in Handlers |-> NULL]
  /\ handler_collection = [h \in Handlers |-> FALSE]
  /\ from_pool = [h \in Handlers |-> FALSE]
  /\ live_clients = {}
  /\ handlers_call = NoHandlersCall
  /\ now = 0
  /\ PoolUnused
  /\ RegistryUnused
  /\ AnalyzeUnused
  /\ ScanUnused
  /\ UriUnused
  /\ ConvertUnused
  /\ PoolsUnused
  /\ LifecycleUnused
  /\ LockingUnused
  /\ GlobalsUnused
  /\ OpenUnused

HandlerConnectionOf(h) ==
  HandlerConnection(handler_client[h], handler_collection[h], from_pool[h],
                    live_clients)

SetHandlerConnection(h, c) ==
  /\ handler_client' = [handler_client EXCEPT ![h] = c.client]
  /\ handler_collection' = [handler_collection EXCEPT ![h] = c.collection]
  /\ from_pool' = [from_pool EXCEPT ![h] = c.from_pool]
  /\ live_clients' = c.live

\* ha_mongodb::open: the connection string is parsed, nothing is connected.
Open(h) ==
  /\ ~handler_open[h]
  /\ handler_open' = [handler_open EXCEPT ![h] = TRUE]
  /\ handlers_call' = [op |-> "open", handler |-> h, rc |-> 0]
  /\ UNCHANGED <<handler_client, handler_collection, from_pool, live_clients,
                 notHandlersVars>>

\* The start of rnd_init and of index_read_map:
\* "if (!collection) connect_to_mongodb()".
DataAccess(h, created, got_database, got_collection) ==
  LET new_client == IF created THEN NewClientAddress(live_clients) ELSE NULL
      connected  == connect_to_mongodb(HandlerConnectionOf(h), new_client,
                                       got_database, got_collection)
  IN  /\ handler_open[h]
      /\ IF ~handler_collection[h]
         THEN /\ SetHandlerConnection(h, connected.handler)
              /\ handlers_call' = [op |-> "connect_to_mongodb", handler |-> h,
                                   rc |-> connected.rc]
         ELSE /\ handlers_call' = [op |-> "data_access", handler |-> h, rc |-> 0]
              /\ UNCHANGED <<handler_client, handler_collection, from_pool,
                             live_clients>>
      /\ UNCHANGED <<handler_open, notHandlersVars>>

\* ha_mongodb::close.
Close(h) ==
  /\ handler_open[h]
  /\ SetHandlerConnection(h, disconnect_from_mongodb(HandlerConnectionOf(h)))
  /\ handler_open' = [handler_open EXCEPT ![h] = FALSE]
  /\ handlers_call' = [op |-> "close", handler |-> h, rc |-> 0]
  /\ UNCHANGED notHandlersVars

NextHandlers ==
  \E h \in Handlers :
    \/ Open(h)
    \/ \E created, got_database, got_collection \in BOOLEAN :
         DataAccess(h, created, got_database, got_collection)
    \/ Close(h)

SpecHandlers == InitHandlers /\ [][NextHandlers]_vars

\* C13 (handlers use the pool): the client of every handler was given to it
\* by acquire_connection of the pool, and the clients alive are never more
\* than max_connections of the pool.
C13_HandlersUsePool ==
  /\ \A h \in Handlers : handler_client[h] # NULL => from_pool[h]
  /\ Cardinality(live_clients) <= MONGODB_DEFAULT_MAX_CONNECTIONS

(***************************************************************************)
(* The pool life specification: one pool from its construction to its      *)
(* destructor, with acquire_connection, release_connection, cleanup and    *)
(* set_max_connections called by the threads in any order. Each call holds *)
(* pool_mutex, so a call is one step.                                      *)
(***************************************************************************)
InitLifecycle ==
  /\ InitPool
  /\ InitCallers
  /\ now = 0
  /\ closed = [id \in ConnectionIds |-> 0]
  /\ pool_alive = TRUE
  /\ pool_uri_valid \in BOOLEAN
  /\ lifecycle_call = NoLifecycleCall
  /\ RegistryUnused
  /\ AnalyzeUnused
  /\ ScanUnused
  /\ UriUnused
  /\ ConvertUnused
  /\ PoolsUnused
  /\ HandlersUnused
  /\ LockingUnused
  /\ GlobalsUnused
  /\ OpenUnused

\* The clock advances.
PoolTick ==
  /\ pool_alive
  /\ now < MaxTicks * ClockStep
  /\ now' = now + ClockStep
  /\ last_call' = [op |-> "none", client |-> NULL]
  /\ lifecycle_call' = NoLifecycleCall
  /\ UNCHANGED <<poolVars, holding, stale, disciplined, closed, pool_alive,
                 pool_uri_valid,
                 notLifecycleNorPoolVars>>

\* Thread t calls acquire_connection. creation records what the driver did in
\* the call of create_new_connection, "not_called" when there was none.
PoolAcquire(t) ==
  /\ pool_alive
  /\ holding[t] = NULL
  /\ total_connections_created < MaxClientsCreated
  /\ \E driver \in DriverOutcomes :
       LET kept == cleanup_idle_connections(connections, now, idle_timeout)
           new_client == create_new_connection(pool_uri_valid, driver, FreeAddress(kept))
           r == acquire_connection(connections, max_connections, active_connections,
                                   next_connection_id, total_connections_created,
                                   now, idle_timeout, new_client)
       IN  /\ connections' = r.conns
           /\ active_connections' = r.active
           /\ next_connection_id' = r.next_id
           /\ total_connections_created' = r.total
           /\ holding' = [holding EXCEPT ![t] = r.result]
           /\ last_call' = [op |-> "acquire", client |-> r.result]
           /\ lifecycle_call' =
                [op |-> "acquire",
                 destroyed |-> ReapedIds(connections, now, idle_timeout),
                 creation |-> IF CreationCalls(kept, max_connections) = 0
                              THEN "not_called"
                              ELSE IF pool_uri_valid THEN driver ELSE "uri_invalid"]
  /\ closed' = ClosedAfter(closed, ReapedIds(connections, now, idle_timeout))
  /\ stale' = [stale EXCEPT ![t] = NULL]
  /\ UNCHANGED <<max_connections, idle_timeout, disciplined, now, pool_alive,
                 pool_uri_valid,
                 notLifecycleNorPoolVars>>

\* Thread t releases the handle it holds.
PoolRelease(t) ==
  /\ pool_alive
  /\ holding[t] # NULL
  /\ LET r == release_connection(connections, active_connections, now, holding[t])
     IN  /\ connections' = r.conns
         /\ active_connections' = r.active
  /\ holding' = [holding EXCEPT ![t] = NULL]
  /\ stale' = [stale EXCEPT ![t] = holding[t]]
  /\ last_call' = [op |-> "release", client |-> holding[t]]
  /\ lifecycle_call' = [op |-> "release", destroyed |-> {}, creation |-> "not_called"]
  /\ UNCHANGED <<max_connections, idle_timeout, next_connection_id,
                 total_connections_created, disciplined, now, closed, pool_alive,
                 pool_uri_valid,
                 notLifecycleNorPoolVars>>

\* The state cleanup() leaves, whoever calls it.
CleanupBy(op) ==
  /\ LET r == cleanup(connections)
     IN  /\ connections' = r.conns
         /\ active_connections' = r.active
         /\ closed' = ClosedAfter(closed, r.destroyed)
         /\ lifecycle_call' = [op |-> op, destroyed |-> r.destroyed,
                               creation |-> "not_called"]
  /\ last_call' = [op |-> "none", client |-> NULL]
  /\ UNCHANGED <<max_connections, idle_timeout, next_connection_id,
                 total_connections_created, holding, stale, disciplined, now,
                 pool_uri_valid, notLifecycleNorPoolVars>>

\* A call of cleanup().
Cleanup ==
  /\ pool_alive
  /\ CleanupBy("cleanup")
  /\ UNCHANGED pool_alive

\* ~MongoConnectionPool: cleanup(), after which no member is called.
Destructor ==
  /\ pool_alive
  /\ CleanupBy("destructor")
  /\ pool_alive' = FALSE

\* A call of set_max_connections(max_conn).
SetMaxConnections(max_conn) ==
  /\ pool_alive
  /\ max_connections' = set_max_connections(max_conn)
  /\ last_call' = [op |-> "none", client |-> NULL]
  /\ lifecycle_call' = [op |-> "set_max_connections", destroyed |-> {},
                        creation |-> "not_called"]
  /\ UNCHANGED <<connections, idle_timeout, next_connection_id, active_connections,
                 total_connections_created, holding, stale, disciplined, now,
                 closed, pool_alive, pool_uri_valid, notLifecycleNorPoolVars>>

NextLifecycle ==
  \/ PoolTick
  \/ \E t \in Threads : PoolAcquire(t)
  \/ \E t \in Threads : PoolRelease(t)
  \/ Cleanup
  \/ Destructor
  \/ \E max_conn \in 1..MaxPool : SetMaxConnections(max_conn)

SpecLifecycle == InitLifecycle /\ [][NextLifecycle]_vars

\* C16 (teardown complete and repeatable): after cleanup(), called directly or
\* by the destructor, the pool has no entry and an active count of zero and
\* the client of every entry the pool ever had has been closed exactly once;
\* no client is ever closed a second time, so a cleanup() that follows
\* another closes nothing.
C16_TeardownOnce ==
  /\ \A id \in ConnectionIds : closed[id] <= 1
  /\ lifecycle_call.op \in {"cleanup", "destructor"} =>
       /\ connections = <<>>
       /\ active_connections = 0
       /\ \A id \in ConnectionIds :
            closed[id] = IF id < next_connection_id THEN 1 ELSE 0

\* The destructor has run on a pool emptied by an earlier cleanup() that had
\* closed two clients: it closed nothing.
C16_Witness ==
  /\ lifecycle_call.op = "destructor"
  /\ lifecycle_call.destroyed = {}
  /\ ~pool_alive
  /\ total_connections_created >= 2
  /\ \A id \in 1..2 : closed[id] = 1

\* C18 (health invariant): is_healthy() is true in every state reachable by
\* acquire_connection, release_connection, the idle reaping, cleanup and
\* set_max_connections.
C18_AlwaysHealthy ==
  is_healthy(connections, max_connections, active_connections)

\* The outcomes of a create_new_connection call that the specification
\* counts as a failed creation.
FailedCreations == {"uri_invalid", "uri_rejected", "ping_failed"}

\* What an acquire_connection whose creation failed leaves of every field
\* but the entry list: no handle, and the counters as they were.
FailedCreationFrame ==
  /\ last_call'.client = NULL
  /\ active_connections' = active_connections
  /\ total_connections_created' = total_connections_created
  /\ next_connection_id' = next_connection_id

\* C21 (failed creation leaves the pool unchanged), as the code has it: when
\* acquire_connection calls create_new_connection and the creation fails
\* (invalid parsed URI, URI rejected by the driver, failed ping), it returns
\* no handle, leaves the active count, the total-created counter and the
\* next connection identifier unchanged, and leaves the entry list as the
\* idle reaping at the start of the call left it; a failing collStats probe
\* alone yields a client, which is registered in use and returned.
C21_FailedCreationKeepsReapedPool ==
  [][lifecycle_call'.op = "acquire" =>
       /\ lifecycle_call'.creation \in FailedCreations =>
            /\ FailedCreationFrame
            /\ connections' = cleanup_idle_connections(connections, now, idle_timeout)
       /\ lifecycle_call'.creation = "coll_stats_failed" =>
            /\ last_call'.client # NULL
            /\ IsBusyEntry(connections', last_call'.client)
            /\ total_connections_created' = total_connections_created + 1]_vars

\* C21 as stated: the failed creation leaves the entry list unchanged.
C21_FailedCreationKeepsPool ==
  [][lifecycle_call'.op = "acquire" =>
       /\ lifecycle_call'.creation \in FailedCreations =>
            /\ FailedCreationFrame
            /\ connections' = connections
       /\ lifecycle_call'.creation = "coll_stats_failed" =>
            /\ last_call'.client # NULL
            /\ IsBusyEntry(connections', last_call'.client)
            /\ total_connections_created' = total_connections_created + 1]_vars

\* An acquire_connection whose ping failed has returned null from a pool
\* whose only entry the reaping of the same call had removed.
C21_Witness ==
  /\ lifecycle_call.op = "acquire"
  /\ lifecycle_call.creation = "ping_failed"
  /\ lifecycle_call.destroyed # {}
  /\ last_call.client = NULL
  /\ connections = <<>>
  /\ total_connections_created >= 1

(***************************************************************************)
(* The pool locking specification: the threads call the members of one     *)
(* pool concurrently. A member that takes pool_mutex (std::lock_guard)     *)
(* starts only when the mutex is free. acquire_connection,                 *)
(* release_connection and set_max_connections are one step each, made      *)
(* with the mutex held; cleanup() is three steps (lock and destroy the     *)
(* clients, clear the vector, zero the count and unlock), so that what a   *)
(* member running without the mutex reads in between is a state of the     *)
(* model. is_healthy, get_total_connections and set_idle_timeout take no   *)
(* lock and run whenever their thread is idle.                             *)
(***************************************************************************)
InitLocking ==
  /\ InitPool
  /\ InitCallers
  /\ now = 0
  /\ pool_mutex = NULL
  /\ lock_pc = [t \in Threads |-> "idle"]
  /\ pool_access = NoAccess
  /\ observed = NoObservation
  /\ RegistryUnused
  /\ AnalyzeUnused
  /\ ScanUnused
  /\ UriUnused
  /\ ConvertUnused
  /\ PoolsUnused
  /\ HandlersUnused
  /\ LifecycleUnused
  /\ GlobalsUnused
  /\ OpenUnused

\* acquire_connection by thread t: lock_guard, the body, the return.
LockedAcquire(t) ==
  /\ lock_pc[t] = "idle"
  /\ pool_mutex = NULL
  /\ holding[t] = NULL
  /\ total_connections_created < MaxClientsCreated
  /\ \E new_client \in NewClientOutcomes(connections, now, idle_timeout) :
       LET r == acquire_connection(connections, max_connections, active_connections,
                                   next_connection_id, total_connections_created,
                                   now, idle_timeout, new_client)
       IN  /\ connections' = r.conns
           /\ active_connections' = r.active
           /\ next_connection_id' = r.next_id
           /\ total_connections_created' = r.total
           /\ holding' = [holding EXCEPT ![t] = r.result]
           /\ last_call' = [op |-> "acquire", client |-> r.result]
  /\ pool_access' = Access(t, "acquire_connection", TRUE)
  /\ UNCHANGED <<max_connections, idle_timeout, stale, disciplined, now,
                 pool_mutex, lock_pc, observed, notLockingNorPoolVars>>

\* release_connection by thread t of the handle it holds.
LockedRelease(t) ==
  /\ lock_pc[t] = "idle"
  /\ pool_mutex = NULL
  /\ holding[t] # NULL
  /\ LET r == release_connection(connections, active_connections, now, holding[t])
     IN  /\ connections' = r.conns
         /\ active_connections' = r.active
  /\ holding' = [holding EXCEPT ![t] = NULL]
  /\ last_call' = [op |-> "release", client |-> holding[t]]
  /\ pool_access' = Access(t, "release_connection", TRUE)
  /\ UNCHANGED <<max_connections, idle_timeout, next_connection_id,
                 total_connections_created, stale, disciplined, now,
                 pool_mutex, lock_pc, observed, notLockingNorPoolVars>>

\* set_max_connections(max_conn) by thread t.
LockedSetMaxConnections(t, max_conn) ==
  /\ lock_pc[t] = "idle"
  /\ pool_mutex = NULL
  /\ max_connections' = set_max_connections(max_conn)
  /\ pool_access' = Access(t, "set_max_connections", TRUE)
  /\ UNCHANGED <<connections, idle_timeout, next_connection_id, active_connections,
                 total_connections_created, callerVars, now,
                 pool_mutex, lock_pc, observed, notLockingNorPoolVars>>

\* cleanup() by thread t: lock_guard, and the loop that destroys the clients.
CleanupLock(t) ==
  /\ lock_pc[t] = "idle"
  /\ pool_mutex = NULL
  /\ pool_mutex' = t
  /\ lock_pc' = [lock_pc EXCEPT ![t] = "clear"]
  /\ pool_access' = Access(t, "cleanup", TRUE)
  /\ UNCHANGED <<poolVars, callerVars, now, observed, notLockingNorPoolVars>>

\* cleanup(): "connections.clear()".
CleanupClear(t) ==
  /\ lock_pc[t] = "clear"
  /\ connections' = cleanup(connections).conns
  /\ lock_pc' = [lock_pc EXCEPT ![t] = "zero"]
  /\ pool_access' = Access(t, "cleanup", pool_mutex = t)
  /\ UNCHANGED <<max_connections, idle_timeout, next_connection_id, active_connections,
                 total_connections_created, callerVars, now,
                 pool_mutex, observed, notLockingNorPoolVars>>

\* cleanup(): "active_connections = 0", and the return, which unlocks.
CleanupZero(t) ==
  /\ lock_pc[t] = "zero"
  /\ active_connections' = cleanup(connections).active
  /\ lock_pc' = [lock_pc EXCEPT ![t] = "idle"]
  /\ pool_access' = Access(t, "cleanup", pool_mutex = t)
  /\ pool_mutex' = NULL
  /\ UNCHANGED <<connections, max_connections, idle_timeout, next_connection_id,
                 total_connections_created, callerVars, now,
                 observed, notLockingNorPoolVars>>

\* is_healthy() by thread t: no lock is taken.
IsHealthy(t) ==
  /\ lock_pc[t] = "idle"
  /\ observed' = Observation(Len(connections), active_connections,
                             is_healthy(connections, max_connections, active_connections))
  /\ pool_access' = Access(t, "is_healthy", pool_mutex = t)
  /\ UNCHANGED <<poolVars, callerVars, now, pool_mutex, lock_pc, notLockingNorPoolVars>>

\* get_total_connections() by thread t: "return connections.size()", no lock.
GetTotalConnections(t) ==
  /\ lock_pc[t] = "idle"
  /\ observed' = Observation(Len(connections), observed.active, observed.healthy)
  /\ pool_access' = Access(t, "get_total_connections", pool_mutex = t)
  /\ UNCHANGED <<poolVars, callerVars, now, pool_mutex, lock_pc, notLockingNorPoolVars>>

\* set_idle_timeout(timeout) by thread t: "idle_timeout = timeout", no lock.
SetIdleTimeout(t, timeout) ==
  /\ lock_pc[t] = "idle"
  /\ idle_timeout' = timeout
  /\ pool_access' = Access(t, "set_idle_timeout", pool_mutex = t)
  /\ UNCHANGED <<connections, max_connections, next_connection_id, active_connections,
                 total_connections_created, callerVars, now,
                 pool_mutex, lock_pc, observed, notLockingNorPoolVars>>

NextLocking ==
  \/ \E t \in Threads : LockedAcquire(t)
  \/ \E t \in Threads : LockedRelease(t)
  \/ \E t \in Threads, max_conn \in 1..MaxPool : LockedSetMaxConnections(t, max_conn)
  \/ \E t \in Threads : CleanupLock(t)
  \/ \E t \in Threads : CleanupClear(t)
  \/ \E t \in Threads : CleanupZero(t)
  \/ \E t \in Threads : IsHealthy(t)
  \/ \E t \in Threads : GetTotalConnections(t)
  \/ \E t \in Threads, timeout \in IdleTimeouts : SetIdleTimeout(t, timeout)

SpecLocking == InitLocking /\ [][NextLocking]_vars

\* C22 (all pool accesses are under the pool lock): every access to the
\* fields of the pool is made by a thread that holds pool_mutex, and what
\* is_healthy reads is never a state in the middle of another thread's
\* update: it never reads an empty collection with a non-zero active count.
C22_AccessesUnderPoolLock ==
  /\ pool_access.locked
  /\ observed.size = 0 => observed.active = 0

(***************************************************************************)
(* The global maps specification: the threads look pools and registries up *)
(* or create them, use them (a pool creates its first client, a registry   *)
(* samples) and clean the maps up. A call under a global lock is one step. *)
(***************************************************************************)
RegistryConnectionStrings ==
  {text \in TableConnectionStrings : DriverStrings[text] = DriverStrings[CHOOSE x \in TableConnectionStrings : TRUE]}

InitGlobals ==
  /\ PoolsUnused
  /\ OpenUnused
  /\ connected_pools = {}
  /\ global_schema_registries = EmptyMap
  /\ network_log = NoNetworkLog
  /\ now = 0
  /\ PoolUnused
  /\ RegistryUnused
  /\ AnalyzeUnused
  /\ ScanUnused
  /\ UriUnused
  /\ ConvertUnused
  /\ HandlersUnused
  /\ LifecycleUnused
  /\ LockingUnused

\* get_or_create_connection_pool(text) under global_pool_mutex: the lookup,
\* and the constructor of the pool, which parses the string and connects to
\* nothing.
PoolLookup(text) ==
  LET got == get_or_create_connection_pool(global_connection_pools, text,
                                           pools_created + 1)
  IN  /\ pools_created < MaxPoolsCreated
      /\ global_connection_pools' = got.pools
      /\ pools_created' = IF got.created THEN pools_created + 1 ELSE pools_created
      /\ pools_call' = [op |-> "get_or_create_connection_pool", text |-> text,
                        instance |-> got.pool.instance, created |-> got.created]
      /\ network_log' = NetworkLog("get_or_create_connection_pool", "global_pool_mutex", {})
      /\ UNCHANGED <<connected_pools, global_schema_registries, notGlobalsNorPoolsVars>>

\* acquire_connection on the pool of text creates the first client of the
\* pool (connect and ping), under pool_mutex and no global lock.
PoolFirstAcquire(text) ==
  /\ text \in DOMAIN global_connection_pools
  /\ global_connection_pools[text].instance \notin connected_pools
  /\ connected_pools' = connected_pools \cup {global_connection_pools[text].instance}
  /\ pools_call' = [NoPoolsCall EXCEPT !.op = "acquire_connection"]
  /\ network_log' = NetworkLog("acquire_connection", "none", {})
  /\ UNCHANGED <<global_connection_pools, pools_created, global_schema_registries,
                 notGlobalsNorPoolsVars>>

\* cleanup_all_connection_pools() under global_pool_mutex: the clear destroys
\* every pool of the map.
PoolsCleanup ==
  /\ global_connection_pools' = cleanup_all_connection_pools(global_connection_pools)
  /\ connected_pools' = {}
  /\ pools_call' = [NoPoolsCall EXCEPT !.op = "cleanup_all_connection_pools"]
  /\ network_log' =
       NetworkLog("cleanup_all_connection_pools", "global_pool_mutex",
                  UNION {PoolDestructorNetwork(global_connection_pools[k], connected_pools) :
                           k \in DOMAIN global_connection_pools})
  /\ UNCHANGED <<pools_created, global_schema_registries, notGlobalsNorPoolsVars>>

\* get_or_create_schema_registry(text) under global_schema_mutex: the lookup,
\* and the constructor of the registry.
RegistryLookup(text) ==
  /\ \E client \in {NULL, SchemaClient} :
       global_schema_registries' =
         get_or_create_schema_registry(global_schema_registries, text, client).registries
  /\ network_log' = NetworkLog("get_or_create_schema_registry", "global_schema_mutex", {})
  /\ UNCHANGED <<poolsVars, connected_pools, notGlobalsNorPoolsVars>>

\* infer_schema_from_collection on the registry of text samples the
\* collection, under no global lock.
RegistrySample(text) ==
  /\ text \in DOMAIN global_schema_registries
  /\ global_schema_registries[text].schema_client # NULL
  /\ network_log' = NetworkLog("infer_schema_from_collection", "none", {})
  /\ UNCHANGED <<poolsVars, connected_pools, global_schema_registries,
                 notGlobalsNorPoolsVars>>

\* cleanup_all_schema_registries() under global_schema_mutex: the clear
\* destroys every registry of the map.
RegistriesCleanup ==
  /\ global_schema_registries' = cleanup_all_schema_registries(global_schema_registries)
  /\ network_log' =
       NetworkLog("cleanup_all_schema_registries", "global_schema_mutex",
                  UNION {RegistryDestructorNetwork(global_schema_registries[k]) :
                           k \in DOMAIN global_schema_registries})
  /\ UNCHANGED <<poolsVars, connected_pools, notGlobalsNorPoolsVars>>

NextGlobals ==
  \/ \E text \in TableConnectionStrings : PoolLookup(text)
  \/ \E text \in TableConnectionStrings : PoolFirstAcquire(text)
  \/ PoolsCleanup
  \/ \E text \in RegistryConnectionStrings : RegistryLookup(text)
  \/ \E text \in RegistryConnectionStrings : RegistrySample(text)
  \/ RegistriesCleanup

SpecGlobals == InitGlobals /\ [][NextGlobals]_vars

\* C23 (global registry lock scope): a call that holds global_pool_mutex or
\* global_schema_mutex makes no network operation (connect, ping, sampling,
\* client close) while it holds it.
C23_NoNetworkUnderGlobalLock ==
  network_log.lock # "none" => network_log.network = {}

\* The fixed text an error_message starts with; "" when there is none.
ErrorText(u) == IF u.error_message = <<>> THEN "" ELSE u.error_message[1]

\* The texts of the errors of the hosts stage and of the path stage.
HostsErrors == {"No hosts specified", "Invalid port number: ", "Invalid hostname: ", "Invalid port: "}
PathErrors == {"Invalid database name: ", "Invalid collection name: "}
OptionsErrors == {"Invalid connectTimeoutMS: ", "Invalid socketTimeoutMS: "}

\* C30 (the parse outcome is valid xor error): a parsed URI is valid with
\* an empty error_message or invalid with a non-empty one, for the string
\* given and for the rendered string parsed again; an empty string or a
\* failure of the protocol stage leaves every field as constructed, a
\* failure of the hosts stage leaves the path and the options as
\* constructed, a failure of the path stage leaves the options as
\* constructed, and no failure is followed by is_valid.
C30_ValidXorError ==
  /\ uri_stage # "given" =>
       /\ parsed_uri.is_valid <=> parsed_uri.error_message = <<>>
       /\ ErrorText(parsed_uri) \in {"Empty connection string", "Invalid protocol"} =>
            parsed_uri = [MongoURI EXCEPT !.error_message = parsed_uri.error_message]
       /\ ErrorText(parsed_uri) \in HostsErrors =>
            /\ parsed_uri.database = <<>>
            /\ parsed_uri.collection = <<>>
            /\ OptionSet(parsed_uri) = OptionSet(MongoURI)
       /\ ErrorText(parsed_uri) \in PathErrors => OptionSet(parsed_uri) = OptionSet(MongoURI)
       /\ ErrorText(parsed_uri) \in OptionsErrors => ~parsed_uri.is_valid
  /\ uri_stage = "reparsed" =>
       (reparsed_uri.is_valid <=> reparsed_uri.error_message = <<>>)

\* A string with a host, a database, a collection and the option ssl=1 has
\* been parsed, and the timeout after ssl=1 is no number: the options stage
\* has failed after it set ssl.
C30_Witness ==
  /\ uri_stage = "parsed"
  /\ ErrorText(parsed_uri) = "Invalid connectTimeoutMS: "
  /\ parsed_uri.ssl
  /\ parsed_uri.hosts # <<>>
  /\ parsed_uri.database # <<>>
  /\ parsed_uri.collection # <<>>
  /\ ~parsed_uri.is_valid

\* The text from the end of the credentials up to the first '/' or '?' that
\* follows, whichever comes first, or up to the end of the string.
HostSegment(text) ==
  LET protocol == parse_protocol(text, MongoURI, 0)
      start    == parse_credentials(text, protocol.result, protocol.pos).pos
      ends     == {i \in start..(Len(text) - 1) : text[i + 1] \in {"/", "?"}}
      end_pos  == IF ends = {} THEN Len(text)
                  ELSE CHOOSE i \in ends : \A j \in ends : i <= j
  IN  Substr(text, start, end_pos - start)

\* C31 (host segment boundary): when the text between the credentials and
\* the first following '/' or '?' is a list of valid host[:port] entries, the
\* hosts of the parsed URI are the entries of that text, with port 27017 for
\* an entry without a port; a '/' inside the option string does not extend
\* the segment.
C31_HostSegmentBoundary ==
  (uri_stage # "given" /\ parse_protocol(connection_string, MongoURI, 0).ok) =>
    LET expected == ParseHostList(split_string(HostSegment(connection_string), ","), MongoURI)
    IN  (HostSegment(connection_string) # <<>> /\ expected.ok) =>
          parsed_uri.hosts = expected.result.hosts

(***************************************************************************)
(* The table open specification: a handler of a table with some CONNECTION *)
(* string is opened and closed.                                            *)
(***************************************************************************)
InitOpen ==
  /\ table_connect_string \in ConnectionStrings
  /\ share = NoShare
  /\ open_call = NoOpenCall
  /\ now = 0
  /\ PoolUnused
  /\ RegistryUnused
  /\ AnalyzeUnused
  /\ ScanUnused
  /\ UriUnused
  /\ ConvertUnused
  /\ PoolsUnused
  /\ HandlersUnused
  /\ LifecycleUnused
  /\ LockingUnused
  /\ GlobalsUnused

\* ha_mongodb::open(name, mode, test_if_locked).
TableOpen ==
  /\ share.use_count < MaxUseCount
  /\ share' = open(table_connect_string, share).share
  /\ open_call' = OpenCall("open", open(table_connect_string, share).rc)
  /\ UNCHANGED <<table_connect_string, notOpenVars>>

\* ha_mongodb::close(): free_share, and the pointer is set to nullptr.
TableClose ==
  /\ share.allocated
  /\ share' = NoShare
  /\ open_call' = OpenCall("close", "0")
  /\ UNCHANGED <<table_connect_string, notOpenVars>>

NextOpen == TableOpen \/ TableClose

SpecOpen == InitOpen /\ [][NextOpen]_vars

\* C32 (open-time parsing agrees with the URI parser): ha_mongodb::open
\* returns 0 exactly when MongoURIParser::parse reports the CONNECTION string
\* valid, and then the database and the collection of the share are those of
\* the parser and the driver connection string of the share is the
\* to_connection_string rendering of the parsed URI.
C32_OpenAgreesWithParser ==
  open_call.op = "open" =>
    LET parsed == parse(table_connect_string)
    IN  /\ open_call.rc = "0" <=> parsed.is_valid
        /\ open_call.rc = "0" =>
             /\ share.database_name = parsed.database
             /\ share.collection_name = parsed.collection
             /\ share.mongo_connection_string = to_connection_string(parsed)

\* What Field::store is given for an _id of each type the identifier field
\* takes as it is.
IdentifierKind(value_type) ==
  CASE value_type = "BSON_TYPE_OID"   -> "oid_string"
    [] value_type = "BSON_TYPE_UTF8"  -> "string"
    [] value_type = "BSON_TYPE_INT32" -> "int32"
    [] value_type = "BSON_TYPE_INT64" -> "int64"
    [] OTHER                          -> "canonical_json"

\* C33 (identifier field by convention): after a conversion that returned
\* success, a Field named _id or id holds the _id of the document: the hex
\* string of an ObjectId, the string, or the 32- or 64-bit integer.
C33_IdentifierByConvention ==
  (convert_call.op = "convert_document_to_row" /\ convert_call.rc = 0) =>
    \A i \in DOMAIN table_fields :
      LET found == bson_iter_find(convert_call.doc, "_id")
          id    == convert_call.doc.elements[found]
      IN  (/\ table_fields[i] \in {"_id", "id"}
           /\ found # 0
           /\ id.value_type \in {"BSON_TYPE_OID", "BSON_TYPE_UTF8", "BSON_TYPE_INT32",
                                 "BSON_TYPE_INT64"})
            => /\ ~row[i].is_null
               /\ row[i].value = StoredValue(IdentifierKind(id.value_type), id.value, <<>>)

\* What the converter is to store for an ordinary field of each type.
CoercedKind(value_type) ==
  CASE value_type = "BSON_TYPE_UTF8"      -> "string"
    [] value_type = "BSON_TYPE_INT32"     -> "int32"
    [] value_type = "BSON_TYPE_INT64"     -> "int64"
    [] value_type = "BSON_TYPE_DOUBLE"    -> "double"
    [] value_type = "BSON_TYPE_BOOL"      -> "bool"
    [] value_type = "BSON_TYPE_DATE_TIME" -> "epoch_seconds"
    [] value_type = "BSON_TYPE_DOCUMENT"  -> "json"
    [] value_type = "BSON_TYPE_ARRAY"     -> "json"
    [] value_type = "BSON_TYPE_BINARY"    -> "bytes"
    [] OTHER                              -> "type_desc"

\* C34 (per-type coercion of ordinary fields): after a conversion that
\* returned success, a Field that is neither the identifier nor the whole
\* document and whose name is a key of the document is NULL for a BSON null,
\* and otherwise holds what its type asks for: the string, the integer, the
\* double, 0 or 1, the epoch seconds, the JSON text, the bytes; a type tag
\* only for the other types.
C34_OrdinaryFieldCoercion ==
  (convert_call.op = "convert_document_to_row" /\ convert_call.rc = 0) =>
    \A i \in DOMAIN table_fields :
      LET found == bson_iter_find(convert_call.doc, table_fields[i])
          iter  == convert_call.doc.elements[found]
      IN  (table_fields[i] \notin {"_id", "id", "document"} /\ found # 0) =>
            IF iter.value_type = "BSON_TYPE_NULL" THEN row[i].is_null
            ELSE /\ ~row[i].is_null
                 /\ row[i].value.kind = CoercedKind(iter.value_type)

\* The Fields of the row whose name is no key of the document converted.
AbsentFields(names) ==
  {i \in DOMAIN table_fields :
     table_fields[i] \in names /\ bson_iter_find(convert_call.doc, table_fields[i]) = 0}

FieldNames == {table_fields[i] : i \in DOMAIN table_fields}

C36_CursorLifecycle ==
  /\ ~overwritten
  /\ handler_call.op \in {"rnd_end", "close"} => cursor.null /\ current_doc = 0

(***************************************************************************)
(* C37: rnd_pos called with the reference position() stored after a        *)
(* successful rnd_next returns the document that rnd_next had returned,    *)
(* whatever rnd_next, rnd_pos, rnd_end, index_read_map and index_next      *)
(* calls came in between and whether or not a filter was pushed; and       *)
(* scan_position is the number of documents consumed from the current      *)
(* cursor.                                                                 *)
(***************************************************************************)
C37_PositionRoundTrip ==
  /\ (handler_call.op = "rnd_pos" /\ ref_doc # 0 /\ handler_call.pos = ref) =>
       handler_call.rc = "0" /\ handler_call.doc = ref_doc
  /\ ~cursor.null => scan_position = cursor.consumed

\* The code the claim gives a driver error by its category.
ErrorClass(message) ==
  IF "connection refused" \in message \/ "No suitable servers found" \in message
  THEN "HA_ERR_NO_CONNECTION"
  ELSE IF "Authentication failed" \in message \/ "not authorized" \in message
  THEN "HA_ERR_NO_CONNECTION"
  ELSE IF "Collection" \in message /\ "not found" \in message
  THEN "HA_ERR_NO_SUCH_TABLE"
  ELSE "HA_ERR_INTERNAL_ERROR"

(***************************************************************************)
(* C38: in rnd_next, index_read_map, index_next and read_range_next a      *)
(* fetch that fails with a driver error returns the code of the error's    *)
(* category (connection, not found, internal), and the end of the data     *)
(* without an error returns end-of-file.                                   *)
(***************************************************************************)
C38_DriverErrorsByCategory ==
  (/\ handler_call.op \in {"rnd_next", "index_read_map", "index_next", "read_range_next"}
   /\ handler_call.rc # "0"
   /\ ~cursor.null) =>
     IF handler_call.error # NoError
     THEN handler_call.rc = ErrorClass(handler_call.error)
     ELSE handler_call.rc = "HA_ERR_END_OF_FILE"

\* The connection_id of the entries of conns.
IdsOf(conns) == {conns[i].connection_id : i \in 1..Len(conns)}

(***************************************************************************)
(* C39: between the calls of the pool, active_connections is the number of *)
(* entries whose in_use flag is set, after any sequence of acquire,        *)
(* release, idle reaping and cleanup; the entries hold their identifiers   *)
(* in strictly increasing order of creation, and an entry that is created  *)
(* gets an identifier above every identifier given before, none of a       *)
(* client reaped or torn down.                                             *)
(***************************************************************************)
C39_BusyCounterConsistent ==
  /\ [](active_connections = BusyCount(connections))
  /\ [](\A i, j \in 1..Len(connections) :
          i < j => connections[i].connection_id < connections[j].connection_id)
  /\ [](\A i \in 1..Len(connections) : connections[i].connection_id < next_connection_id)
  /\ [](\A id \in ConnectionIds : closed[id] > 0 => id < next_connection_id)
  /\ [][/\ next_connection_id' >= next_connection_id
        /\ \A id \in IdsOf(connections') \ IdsOf(connections) :
             /\ id = next_connection_id
             /\ next_connection_id' = next_connection_id + 1
             /\ closed[id] = 0]_vars

\* An acquire has created an entry after the client of an earlier entry was
\* destroyed by reaping or teardown, while another entry is in use too.
C39_Witness ==
  /\ last_call.op = "acquire"
  /\ lifecycle_call.creation = "ok"
  /\ Len(connections) = 2
  /\ active_connections = 2
  /\ \E id \in ConnectionIds :
       closed[id] > 0 /\ \A i \in 1..Len(connections) : id < connections[i].connection_id

====
